---- MODULE Spec2Model ----
(***************************************************************************)
(* Model of the AzenFlow chat pipeline:                                    *)
(*   - the chat proxy (netlify/functions/chatbot-proxy.js): rate limiter,  *)
(*     input validation, forwarding to the webhook, outcome mapping;       *)
(*   - the chat widget (unnamed/part_004): client rate limiter,            *)
(*     sendMessage / callAI with abort timer and retry backoff, the        *)
(*     conversation store, the greeting, toggleChatbot and clearHistory;   *)
(*   - the contact proxy (netlify/functions/contact-form-proxy.js): rate   *)
(*     limiter, validateAndSanitize, forwarding, outcome mapping.          *)
(*                                                                         *)
(* The specifications share the variables:                                 *)
(*   SpecProxy      the chat proxy under every request body, little time;  *)
(*   SpecRateLimit  the chat proxy under one body of each kind, more time; *)
(*   SpecLimiter    the widget's rate limiter called on its own;           *)
(*   SpecClient     the chat widget in one browser tab;                    *)
(*   LiveClient     SpecClient plus weak fairness of the client timers;    *)
(*   SpecWire       getHistoryForAPI over loaded conversations;            *)
(*   SpecEndToEnd   the widget's sends answered by the chat proxy;         *)
(*   SpecConfig     both proxies under every combination of settings;      *)
(*   SpecContact    the contact proxy under every request body;            *)
(*   SpecContactRate  the contact proxy under two bodies, with time;       *)
(*   SpecConversation the conversation store around its stored maximum;    *)
(*   SpecGreeting   the widget opened, closed and cleared during sends;    *)
(*   LiveGreeting   SpecGreeting plus weak fairness of the greeting timer; *)
(*   SpecWidget     the widget in one tab across reloads of the page.      *)
(***************************************************************************)
EXTENDS Integers, Sequences, FiniteSets, TLC

VARIABLES
    now,             \* Date.now(), in ticks (see the time scales below)
    \* ---- chat proxy (server) ----
    rateLimitStore,  \* chatbot-proxy.js:32   Map ip -> {count, timestamp}
    webhookUrlSet,   \* CONFIG.N8N_WEBHOOK_URL is configured
    webhookSecretSet,\* CONFIG.N8N_WEBHOOK_SECRET is configured
    windowStart,     \* history: per ip, the time its entry was created or reset
    admittedAt,      \* history: per ip, the times of its latest admitted requests
    lastReq,         \* history: the last request handled and its response
    \* ---- chat widget (client) ----
    isOpen,          \* part_004:32
    greetingTimers,  \* pending setTimeout callbacks of initGreeting (part_004:960)
    isProcessing,    \* part_004:35
    useAI,           \* CONFIG.USE_AI, part_004:15 / setAIEnabled
    messageHistory,  \* part_004:33
    storedHistory,   \* sessionStorage 'chatbot_history'
    messageTimes,    \* localStorage 'azenflow_chatbot_rate_limit'
    pc,              \* where the pending sendMessage/callAI is suspended
    retryCount,      \* callAI's retryCount of the current attempt
    abortTimer,      \* the attempt's setTimeout(controller.abort) is armed
    respStatus,      \* status of the response whose body is being read
    backoffMs,       \* delay of the pending retry timer
    inflight,        \* network requests of the client that are outstanding
    sendLog,         \* history: facts about the current / last admitted send
    lastCall,        \* history: the last sendMessage call and what it did
    lastCheck,       \* history: the last client checkRateLimit call
    allowedAt,       \* history: the times of the checks allowed in the last day window
    wire,            \* the history array built for a request body
    \* ---- contact-form proxy (server) ----
    contactStore,    \* contact-form-proxy.js:26   Map key -> request times
    contactUrlSet,   \* CONFIG.N8N_WEBHOOK_URL of the contact proxy is configured
    contactKeySet,   \* CONFIG.API_KEY of the contact proxy is configured
    lastContact      \* history: the last contact request and its response

proxyVars  == <<rateLimitStore, webhookUrlSet, webhookSecretSet, windowStart,
               admittedAt, lastReq>>
clientVars == <<isProcessing, useAI, messageHistory, storedHistory, messageTimes,
                pc, retryCount, abortTimer, respStatus, backoffMs, inflight,
                sendLog, lastCall, lastCheck, allowedAt, wire, isOpen, greetingTimers>>
widgetVars == <<isOpen, greetingTimers>>
checkVars == <<lastCheck, allowedAt>>
contactVars == <<contactStore, contactUrlSet, contactKeySet, lastContact>>
vars == <<now, proxyVars, clientVars, contactVars>>

-----------------------------------------------------------------------------
(* Bounds of the model.                                                    *)

MaxTime == 6          \* the clock stops advancing here
MaxProxyTime == 1     \* the same, when every request body is tried
MaxHistoryInput == 6  \* longest history array a request carries

\* CONFIG.RATE_LIMIT_PER_MINUTE is read from the environment (default 10).
RATE_LIMIT_PER_MINUTE == 2

-----------------------------------------------------------------------------
(* Program constants.                                                      *)

\* Server time scale: one tick is 20 s, so the 60000 ms of
\* chatbot-proxy.js:39/57 are 3 ticks.
ONE_MINUTE == 3

MAX_MESSAGE_LENGTH == 500
MAX_HISTORY_LENGTH == 5

-----------------------------------------------------------------------------
(* JSON values.  Every value is a record with a type tag t.  A string is   *)
(* kept as its literal name plus the three lengths that trim() and         *)
(* .length depend on: leading whitespace, the core from the first to the   *)
(* last non-whitespace character, trailing whitespace.  An all-whitespace  *)
(* string has core = 0 and trail = 0.                                      *)

Undefined == [t |-> "undefined"]
JNull     == [t |-> "null"]
JNumber   == [t |-> "number"]     \* a non-zero number
JObject   == [t |-> "object"]     \* an object with none of the fields read
Str(name, l, c, r) == [t |-> "string", lit |-> name, lead |-> l, core |-> c, trail |-> r]
Lit(name, n) == Str(name, 0, n, 0)
JArray(items) == [t |-> "array", items |-> items]

IsString(v) == v.t = "string"
StrLen(s) == s.lead + s.core + s.trail

\* String.prototype.trim
Trim(s) == [s EXCEPT !.lead = 0, !.trail = 0]

\* JavaScript truthiness (!v is ~Truthy(v))
Truthy(v) ==
    CASE v.t = "undefined" -> FALSE
      [] v.t = "null"      -> FALSE
      [] v.t = "string"    -> StrLen(v) > 0
      [] OTHER             -> TRUE

\* property read v.f: undefined when absent; a TypeError on null/undefined
Get(v, f) == IF f \in DOMAIN v THEN v[f] ELSE Undefined
ReadThrows(v) == v.t \in {"null", "undefined"}

\* Array.prototype.slice(-n)
SliceLast_All(seq, n) == seq

SliceLast(seq, n) ==
    IF Len(seq) <= n THEN seq ELSE SubSeq(seq, Len(seq) - n + 1, Len(seq))

-----------------------------------------------------------------------------
(* Chat proxy: rate limiter (chatbot-proxy.js:32-81).                      *)

NoEntry == [present |-> FALSE, count |-> 0, timestamp |-> 0]
Entry(c, ts) == [present |-> TRUE, count |-> c, timestamp |-> ts]

IPs == {"1.1.1.1", "unknown"}

\* cleanupRateLimitStore: delete entries with data.timestamp < now - 60000
cleanupRateLimitStore(store, t) ==
    [k \in DOMAIN store |->
        IF store[k].present /\ store[k].timestamp < t - ONE_MINUTE
        THEN NoEntry ELSE store[k]]

\* an admitted request that leaves the timestamp of the entry as it was
Stamp_Keep(data, t) == data.timestamp

\* line 79: data.timestamp = now
Stamp(data, t) == t

\* checkRateLimit(ip) of the chat proxy: the store after the call and the verdict
checkRateLimitProxy(store, ip, t) ==
    LET swept == cleanupRateLimitStore(store, t)
        data  == swept[ip]
    IN  IF ~data.present
        THEN [store |-> [swept EXCEPT ![ip] = Entry(1, t)], allowed |-> TRUE]
        ELSE IF data.timestamp < t - ONE_MINUTE
        THEN [store |-> [swept EXCEPT ![ip] = Entry(1, t)], allowed |-> TRUE]
        ELSE IF data.count >= RATE_LIMIT_PER_MINUTE
        THEN [store |-> swept, allowed |-> FALSE]
        ELSE [store |-> [swept EXCEPT ![ip] = Entry(data.count + 1, Stamp(data, t))],
              allowed |-> TRUE]

-----------------------------------------------------------------------------
(* Chat proxy: validateInput (chatbot-proxy.js:88-149).                    *)

NoData == [t |-> "none"]
Invalid(msg) == [kind |-> "invalid", error |-> msg, data |-> NoData]

RoleUser      == Lit("user", 4)
RoleAssistant == Lit("assistant", 9)
LangJa        == Lit("ja", 2)
LangEn        == Lit("en", 2)

\* lines 127-135 for one history item
ItemCheck(item) ==
    IF ReadThrows(item) THEN "throw"
    ELSE LET role    == Get(item, "role")
             content == Get(item, "content")
         IN  IF ~Truthy(role) \/ ~Truthy(content)
                \/ ~IsString(role) \/ ~IsString(content)
             THEN "format"
             ELSE IF role \notin {RoleUser, RoleAssistant}
             THEN "role"
             ELSE "ok"

\* the for loop of lines 126-136: the outcome of the first item that fails
HistoryCheck(items) ==
    LET bad == {i \in 1..Len(items) : ItemCheck(items[i]) # "ok"}
    IN  IF bad = {} THEN "ok"
        ELSE ItemCheck(items[CHOOSE i \in bad : \A j \in bad : i <= j])

\* line 107: body.message.length > CONFIG.MAX_MESSAGE_LENGTH
MessageTooLong_AfterTrim(msg) == StrLen(Trim(msg)) > MAX_MESSAGE_LENGTH

MessageTooLong(msg) == StrLen(msg) > MAX_MESSAGE_LENGTH

validateInput(body) ==
    IF ~Truthy(body) \/ body.t \notin {"object", "array"}
    THEN Invalid("Invalid request format")
    ELSE LET message   == Get(body, "message")
             language  == Get(body, "language")
             sessionId == Get(body, "sessionId")
             hist      == Get(body, "history")
             history   == IF Truthy(hist) /\ hist.t = "array"
                          THEN SliceLast(hist.items, MAX_HISTORY_LENGTH)
                          ELSE <<>>
             checked   == HistoryCheck(history)
         IN  IF ~Truthy(message) \/ ~IsString(message)
             THEN Invalid("Message is required and must be a string")
             ELSE IF ~Truthy(language) \/ language \notin {LangJa, LangEn}
             THEN Invalid("Language must be ja or en")
             ELSE IF ~Truthy(sessionId) \/ ~IsString(sessionId)
             THEN Invalid("Session ID is required")
             ELSE IF MessageTooLong(message)
             THEN Invalid("Message too long")
             ELSE IF StrLen(Trim(message)) = 0
             THEN Invalid("Message cannot be empty")
             ELSE IF checked = "throw"
             THEN [kind |-> "throw", error |-> "TypeError", data |-> NoData]
             ELSE IF checked = "format"
             THEN Invalid("Invalid history format")
             ELSE IF checked = "role"
             THEN Invalid("History role must be user or assistant")
             ELSE [kind |-> "valid", error |-> "none",
                   data |-> [message   |-> Trim(message),
                             language  |-> language,
                             sessionId |-> sessionId,
                             history   |-> history]]

-----------------------------------------------------------------------------
(* Chat proxy: callN8nWebhook and exports.handler                          *)
(* (chatbot-proxy.js:156-236, 251-378).                                    *)

\* A response: status, the error field of its body, the payload that was
\* sent upstream for it, and which of the messages of lines 344-366 it shows.
Response(st, err, fwd) == [status |-> st, error |-> err, fwd |-> fwd, msg |-> "none"]

\* What the upstream webhook does with a forwarded request.  After a
\* timeout, req.destroy() (line 228) may make the request emit 'error'.
UpstreamOutcomes == {"2xx_json", "2xx_unparseable", "non2xx", "connect_error",
                     "timeout", "timeout_then_error"}

\* The events the request object delivers to the listeners of lines 197-231.
UpstreamEvents(up) ==
    CASE up = "2xx_json"           -> <<"end_2xx_json">>
      [] up = "2xx_unparseable"    -> <<"end_2xx_unparseable">>
      [] up = "non2xx"             -> <<"end_non2xx">>
      [] up = "connect_error"      -> <<"error">>
      [] up = "timeout"            -> <<"timeout">>
      [] up = "timeout_then_error" -> <<"timeout", "error">>

\* What the listener of one event passes to resolve ("ok") or reject (the
\* message of the Error), lines 204-231.
Listener(event) ==
    CASE event = "end_2xx_json"        -> "ok"
      [] event = "end_2xx_unparseable" -> "Invalid response from AI service"
      [] event = "end_non2xx"          -> "AI service returned error"
      [] event = "error"               -> "Failed to connect to AI service"
      [] event = "timeout"             -> "AI service timeout"

\* A promise that the last call of resolve / reject would settle.
Settle_LastWins(events) == Listener(events[Len(events)])

\* The promise of line 157 settles with the first call of resolve / reject;
\* later calls do nothing.
Settle(events) == Listener(events[1])

\* callN8nWebhook: "ok", or the message of the Error it rejects with
callN8nWebhook(urlSet, up) ==
    IF ~urlSet THEN "N8N_WEBHOOK_URL not configured"
    ELSE Settle(UpstreamEvents(up))

\* line 191: the X-API-Key header is added when the secret is configured
SendsApiKey(secretSet) == secretSet

\* error.message.includes(word) for the messages callN8nWebhook rejects with
Includes(message, word) ==
    \/ word = "timeout" /\ message = "AI service timeout"
    \/ word = "connect" /\ message = "Failed to connect to AI service"
    \/ word = "not configured" /\ message = "N8N_WEBHOOK_URL not configured"

\* the catch block of the handler, lines 339-376: the status code
ErrorStatus(message) ==
    CASE message = "AI service timeout"              -> 504
      [] message = "Failed to connect to AI service" -> 503
      [] OTHER                                       -> 500

\* the catch block of the handler, lines 344-367: the message pair shown
ErrorMessage(message) ==
    IF Includes(message, "timeout") THEN "timeout"
    ELSE IF Includes(message, "connect") THEN "connection"
    ELSE IF Includes(message, "not configured") THEN "configuration"
    ELSE "generic"

\* event.body: a text that does not parse, an absent body (parsed as '{}'),
\* or the value it parses to
BadJson   == [t |-> "badjson"]
EmptyBody == [t |-> "empty"]
JSONparse(raw) == IF raw = EmptyBody THEN JObject ELSE raw

\* lines 278-280: the first entry of x-forwarded-for, else client-ip, else 'unknown'
NoHeader == "none"
Headers == {[xff |-> <<>>, clientIp |-> NoHeader],
            [xff |-> <<>>, clientIp |-> "1.1.1.1"],
            [xff |-> <<"1.1.1.1", "10.0.0.1">>, clientIp |-> NoHeader]}
ClientIp(headers) ==
    IF Len(headers.xff) > 0 THEN headers.xff[1]
    ELSE IF headers.clientIp # NoHeader THEN headers.clientIp
    ELSE "unknown"

\* lines 298-337 and the catch block: the request after the rate limiter admitted it
AfterRateLimit(raw, urlSet, up) ==
    IF raw = BadJson THEN Response(400, "invalid_json", NoData)
    ELSE LET validation == validateInput(JSONparse(raw))
         IN  IF validation.kind = "throw"
             THEN [Response(500, "server_error", NoData) EXCEPT !.msg = "generic"]
             ELSE IF validation.kind = "invalid"
             THEN Response(400, "validation_error", NoData)
             ELSE LET outcome == callN8nWebhook(urlSet, up)
                      fwd     == IF urlSet THEN validation.data ELSE NoData
                  IN  IF outcome = "ok"
                      THEN Response(200, "none", fwd)
                      ELSE [Response(ErrorStatus(outcome), "server_error", fwd)
                               EXCEPT !.msg = ErrorMessage(outcome)]

\* A handler that parses and validates before it consults the rate limiter.
handler_ValidateFirst(store, t, method, ip, raw, urlSet, up) ==
    IF method = "OPTIONS"
    THEN [store |-> store, allowed |-> FALSE, resp |-> Response(200, "none", NoData)]
    ELSE IF method # "POST"
    THEN [store |-> store, allowed |-> FALSE,
          resp |-> Response(405, "Method not allowed", NoData)]
    ELSE IF raw = BadJson \/ validateInput(JSONparse(raw)).kind # "valid"
    THEN [store |-> store, allowed |-> FALSE,
          resp |-> AfterRateLimit(raw, urlSet, up)]
    ELSE LET rl == checkRateLimitProxy(store, ip, t)
         IN  IF ~rl.allowed
             THEN [store |-> rl.store, allowed |-> FALSE,
                   resp |-> Response(429, "rate_limit_exceeded", NoData)]
             ELSE [store |-> rl.store, allowed |-> TRUE,
                   resp |-> AfterRateLimit(raw, urlSet, up)]

\* exports.handler: the store after the request, whether the rate limiter
\* admitted it, and the response
handler(store, t, method, ip, raw, urlSet, up) ==
    IF method = "OPTIONS"
    THEN [store |-> store, allowed |-> FALSE, resp |-> Response(200, "none", NoData)]
    ELSE IF method # "POST"
    THEN [store |-> store, allowed |-> FALSE,
          resp |-> Response(405, "Method not allowed", NoData)]
    ELSE LET rl == checkRateLimitProxy(store, ip, t)
         IN  IF ~rl.allowed
             THEN [store |-> rl.store, allowed |-> FALSE,
                   resp |-> Response(429, "rate_limit_exceeded", NoData)]
             ELSE [store |-> rl.store, allowed |-> TRUE,
                   resp |-> AfterRateLimit(raw, urlSet, up)]

-----------------------------------------------------------------------------
(* Requests the proxy is sent.                                             *)

Methods == {"OPTIONS", "GET", "POST"}

ValidMessage   == Lit("hello", 5)
ValidSessionId == Lit("abc", 3)

\* message values: absent, null, a number, and strings around the bounds
MessageInputs ==
    {Undefined, JNull, JNumber, Lit("", 0), Str("ws", 1, 0, 0)}
    \cup {Str("m", l, c, r) : l \in {0, 1}, r \in {0, 1},
                              c \in {1, MAX_MESSAGE_LENGTH - 1, MAX_MESSAGE_LENGTH}}
    \cup {Lit("m", MAX_MESSAGE_LENGTH + 1)}

LanguageInputs  == {Undefined, JNumber, LangJa, LangEn, Lit("fr", 2), Str("ja", 1, 2, 0)}
SessionIdInputs == {Undefined, JNumber, Lit("", 0), ValidSessionId}

GoodItem(i) == [t |-> "object",
                role |-> IF i % 2 = 1 THEN RoleUser ELSE RoleAssistant,
                content |-> Lit("turn", 4)]
GoodItems(n) == [i \in 1..n |-> GoodItem(i)]

BadItems ==
    {JNull, JNumber, Lit("item", 4),
     [t |-> "object", content |-> Lit("turn", 4)],
     [t |-> "object", role |-> Lit("system", 6), content |-> Lit("turn", 4)],
     [t |-> "object", role |-> JNumber, content |-> Lit("turn", 4)],
     [t |-> "object", role |-> RoleUser],
     [t |-> "object", role |-> RoleUser, content |-> JNumber]}

HistoryLengths == {0, 1, MAX_HISTORY_LENGTH, MaxHistoryInput}

HistoryInputs ==
    {Undefined, JNull, Lit("abc", 3), JObject}
    \cup {JArray(GoodItems(n)) : n \in HistoryLengths}
    \cup UNION {{JArray([GoodItems(n) EXCEPT ![p] = b]) : p \in {1, n}, b \in BadItems} :
                  n \in HistoryLengths \ {0}}

MkBody(m, l, s, h) ==
    [t |-> "object", message |-> m, language |-> l, sessionId |-> s, history |-> h]

RawBodies ==
    {BadJson, EmptyBody, JNull, JNumber, Lit("text", 4), JArray(<<>>)}
    \cup {MkBody(m, LangJa, ValidSessionId, JArray(GoodItems(1))) : m \in MessageInputs}
    \cup {MkBody(ValidMessage, l, ValidSessionId, Undefined) : l \in LanguageInputs}
    \cup {MkBody(ValidMessage, LangEn, s, Undefined) : s \in SessionIdInputs}
    \cup {MkBody(ValidMessage, LangJa, ValidSessionId, h) : h \in HistoryInputs}
    \cup {MkBody(Lit("m", MAX_MESSAGE_LENGTH + 1), LangJa, ValidSessionId, JArray(<<JNull>>))}

-----------------------------------------------------------------------------
(* State machine of the chat proxy.                                        *)

NoTime == 0 - 1
NoReq == [method |-> "none", ip |-> "none", raw |-> NoData, at |-> NoTime,
          before |-> NoEntry, startBefore |-> NoTime, admittedBefore |-> <<>>,
          allowed |-> FALSE,
          status |-> 0, error |-> "none", fwd |-> NoData, msg |-> "none",
          up |-> "none", withKey |-> FALSE]

\* The two proxies share no state; the model follows one invocation at a time.
NoContact == [method |-> "none", key |-> <<>>, ip |-> "none", raw |-> NoData,
              at |-> NoTime, before |-> <<>>, allowed |-> FALSE, status |-> 0,
              error |-> "none", retryAfter |-> 0, fwd |-> NoData]

\* Requests over a set of bodies: every method and header shape; a body the
\* webhook would be sent goes with a good upstream answer, and one such body
\* with every upstream outcome.
CanonicalBody == MkBody(ValidMessage, LangJa, ValidSessionId, Undefined)

RequestsOver(bodies) ==
    [method : Methods \ {"POST"}, headers : Headers, raw : {EmptyBody},
     up : {"2xx_json"}]
    \cup [method : {"POST"}, headers : Headers, raw : bodies, up : {"2xx_json"}]
    \cup [method : {"POST"}, headers : Headers, raw : {CanonicalBody},
          up : UpstreamOutcomes]

AllRequests == RequestsOver(RawBodies)

\* One body of each kind the handler tells apart before it forwards.
BriefBodies == {BadJson, EmptyBody, CanonicalBody}
BriefRequests == RequestsOver(BriefBodies)

\* The effect of an invocation with result r on the store and the histories.
Handled(method, ip, raw, up, r) ==
    /\ rateLimitStore' = r.store
    /\ windowStart' =
         [k \in IPs |->
            IF ~r.store[k].present THEN NoTime
            ELSE IF k = ip /\ r.allowed /\ r.store[k].count = 1 THEN now
            ELSE windowStart[k]]
    /\ admittedAt' =
         IF r.allowed
         THEN [admittedAt EXCEPT ![ip] =
                  Append(SelectSeq(@, LAMBDA x : now - x <= ONE_MINUTE), now)]
         ELSE admittedAt
    /\ lastReq' = [method |-> method, ip |-> ip, raw |-> raw,
                   at |-> now,
                   before |-> rateLimitStore[ip],
                   startBefore |-> windowStart[ip],
                   admittedBefore |-> admittedAt[ip],
                   allowed |-> r.allowed,
                   status |-> r.resp.status, error |-> r.resp.error,
                   fwd |-> r.resp.fwd, msg |-> r.resp.msg,
                   up |-> IF r.resp.fwd # NoData THEN up ELSE "none",
                   withKey |-> r.resp.fwd # NoData /\ SendsApiKey(webhookSecretSet)]

\* One invocation of exports.handler.  The handler awaits only the upstream
\* call, after its last access to the store, so it is one step.  lastReq
\* keeps the request and its response until Returned drops them.
Handle(requests) ==
    \E req \in requests :
        LET ip == ClientIp(req.headers)
            r  == handler(rateLimitStore, now, req.method, ip, req.raw,
                          webhookUrlSet, req.up)
        IN  /\ lastReq = NoReq
            /\ lastContact = NoContact
            /\ Handled(req.method, ip, req.raw, req.up, r)
            /\ UNCHANGED <<now, webhookUrlSet, webhookSecretSet, clientVars, contactVars>>

ChatRequest == Handle(AllRequests)

\* The same handler under the requests of BriefRequests.
ChatRequestBrief == Handle(BriefRequests)

\* The response has been delivered; the invocation is over.
Returned ==
    /\ lastReq # NoReq
    /\ lastReq' = NoReq
    /\ UNCHANGED <<now, rateLimitStore, webhookUrlSet, webhookSecretSet, windowStart,
                   admittedAt,
                   clientVars, contactVars>>

\* Time passes between invocations, for a short while.
ShortTick ==
    /\ lastReq = NoReq
    /\ now < MaxProxyTime
    /\ now' = now + 1
    /\ UNCHANGED <<proxyVars, clientVars, contactVars>>

\* Time passes between invocations.
Tick ==
    /\ lastReq = NoReq
    /\ now < MaxTime
    /\ now' = now + 1
    /\ UNCHANGED <<proxyVars, clientVars, contactVars>>

-----------------------------------------------------------------------------
(* Chat widget: configuration (part_004:9-23).                             *)
(* Client time scale: 1000 ms are SECOND = 2 ticks, and the three windows  *)
(* and maxima of RATE_LIMITS are scaled down, keeping their order          *)
(* (source: 8 per 60 s, 20 per 600 s, 50 per 86400 s).                     *)

SECOND == 2
PER_MINUTE_MAX == 2
PER_MINUTE_WINDOW == 4
PER_10_MINUTES_MAX == 3
PER_10_MINUTES_WINDOW == 8
PER_DAY_MAX == 4
PER_DAY_WINDOW == 10

RATE_LIMITS ==
    <<[name |-> "PER_MINUTE",     max |-> PER_MINUTE_MAX,     window |-> PER_MINUTE_WINDOW],
      [name |-> "PER_10_MINUTES", max |-> PER_10_MINUTES_MAX, window |-> PER_10_MINUTES_WINDOW],
      [name |-> "PER_DAY",        max |-> PER_DAY_MAX,        window |-> PER_DAY_WINDOW]>>

CLIENT_MAX_MESSAGE_LENGTH == 450
CLIENT_MAX_HISTORY_LENGTH == 5
RETRY_ATTEMPTS == 2
BACKOFF_STEP_MS == 1000
STORED_HISTORY_LIMIT == 50

\* Bounds of the client model.
MaxClientTime == 11   \* the browser clock stops advancing here
MaxSendTime == 1      \* the same, while messages are sent
MaxTurns == 5         \* sendMessage is called only while the history is shorter
MaxLoaded == 7        \* longest conversation that loadConversation restores
MaxTimers == 2        \* greeting timers that are pending at one time
MaxConversation == 53 \* addMessage is called on its own while the history is shorter
MaxAllowed == 5       \* checkRateLimit is called on its own while fewer checks were allowed

-----------------------------------------------------------------------------
(* Chat widget: checkRateLimit (part_004:93-163).                          *)

Within(times, t, window) == SelectSeq(times, LAMBDA x : t - x < window)

MinOf(seq) == CHOOSE x \in {seq[i] : i \in 1..Len(seq)} :
                  \A j \in 1..Len(seq) : x <= seq[j]

\* Math.floor in the place of Math.ceil
CeilDiv_Floor(a, b) == a \div b

\* Math.ceil(a / b) for b > 0
CeilDiv(a, b) == (a + b - 1) \div b

\* line 106 without the filter
PruneOld_Keep(times, t) == times

\* line 106: messageTimes.filter(time => now - time < RATE_LIMITS.PER_DAY.window)
PruneOld(times, t) == Within(times, t, PER_DAY_WINDOW)

\* a loop that goes on to the last check that denies
FirstDenying_Last(denying) == CHOOSE k \in denying : \A j \in denying : k >= j

\* the for loop of line 136 returns at the first check that denies
FirstDenying(denying) == CHOOSE k \in denying : \A j \in denying : k <= j

\* a denial that writes the filtered list back
StoredAfterDenial_Pruned(stored, times) == times

\* lines 141-150: the denial returns before localStorage.setItem
StoredAfterDenial(stored, times) == stored

\* a test that lets one more message through
AtLimit_Over(count, max) == count > max

\* line 141: recentMessages.length >= check.limit.max
AtLimit(count, max) == count >= max

\* The verdict and the sequence left in localStorage.  writeOk is whether
\* localStorage.setItem succeeds (a failure is caught and logged, line 158).
checkRateLimit(stored, t, writeOk) ==
    LET times   == PruneOld(stored, t)
        denying == {i \in 1..Len(RATE_LIMITS) :
                      AtLimit(Len(Within(times, t, RATE_LIMITS[i].window)),
                              RATE_LIMITS[i].max)}
    IN  IF denying # {}
        THEN LET i      == FirstDenying(denying)
                 recent == Within(times, t, RATE_LIMITS[i].window)
             IN  [allowed |-> FALSE, tier |-> RATE_LIMITS[i].name,
                  retryAfter |-> CeilDiv(MinOf(recent) + RATE_LIMITS[i].window - t, SECOND),
                  stored |-> StoredAfterDenial(stored, times)]
        ELSE [allowed |-> TRUE, tier |-> "none", retryAfter |-> 0,
              stored |-> IF writeOk THEN Append(times, t) ELSE stored]

NoDenial == [at |-> NoTime, tier |-> "none", retryAfter |-> 0]
NoCheck == [at |-> NoTime, before |-> <<>>, allowed |-> FALSE, tier |-> "none",
            retryAfter |-> 0, writeOk |-> FALSE, denial |-> NoDenial]

\* The record of a check; denial is the denial that the check before it
\* returned, if it returned one.
CheckRecord(stored, t, writeOk, r) ==
    [at |-> t, before |-> stored, allowed |-> r.allowed, tier |-> r.tier,
     retryAfter |-> r.retryAfter, writeOk |-> writeOk,
     denial |-> IF lastCheck.at # NoTime /\ ~lastCheck.allowed
                THEN [at |-> lastCheck.at, tier |-> lastCheck.tier,
                      retryAfter |-> lastCheck.retryAfter]
                ELSE NoDenial]

\* allowedAt after a check at time t
AllowedLog(t, r) ==
    IF r.allowed
    THEN Append(SelectSeq(allowedAt, LAMBDA x : t - x < PER_DAY_WINDOW), t)
    ELSE allowedAt

-----------------------------------------------------------------------------
(* Chat widget: conversation store and error mapping                       *)
(* (part_004:183-191, 373-387, 513-522).                                   *)

\* A turn of messageHistory.  Its timestamp field is written and never read.
Turn(text, isUser) == [text |-> text, isUser |-> isUser]

\* storeConversation without the slice
storeConversation_All(history) == history

\* storeConversation: what sessionStorage holds afterwards
storeConversation(history) == SliceLast(history, STORED_HISTORY_LIMIT)

\* addMessage without the test of line 517
addMessage_KeepWarnings(history, text, isUser, type) == Append(history, Turn(text, isUser))

\* addMessage: warnings are shown and not kept
addMessage(history, text, isUser, type) ==
    IF type = "normal" THEN Append(history, Turn(text, isUser)) ELSE history

\* getErrorMessage: the key of errorMessages that is shown
getErrorMessage(err) ==
    CASE err = "RATE_LIMIT"    -> "rateLimit"
      [] err = "TIMEOUT"       -> "timeout"
      [] err = "NETWORK_ERROR" -> "network"
      [] err = "SERVER_ERROR"  -> "serverError"
      [] OTHER                 -> "default"

\* getHistoryForAPI without the slice
getHistoryForAPI_All(history) ==
    [i \in 1..Len(history) |->
        [role    |-> IF history[i].isUser THEN "user" ELSE "assistant",
         content |-> history[i].text]]

\* getHistoryForAPI (lines 285-292): slice(-MAX_HISTORY_LENGTH), then map
getHistoryForAPI(history) ==
    LET recent == SliceLast(history, CLIENT_MAX_HISTORY_LENGTH)
    IN  [i \in 1..Len(recent) |->
            [role    |-> IF recent[i].isUser THEN "user" ELSE "assistant",
             content |-> recent[i].text]]

\* No history array has been built.
NoWire == <<[role |-> "none", content |-> "none"]>>

-----------------------------------------------------------------------------
(* Chat widget: callAI (part_004:297-368).                                 *)

\* lines 323-331: the Error thrown for a response that is not ok
StatusError(status) ==
    IF status = 429 THEN "RATE_LIMIT"
    ELSE IF status = 504 THEN "TIMEOUT"
    ELSE IF status >= 500 THEN "SERVER_ERROR"
    ELSE "API_ERROR"

\* lines 359-360 with the bound off by one
ShouldRetry_OneMore(count, err) ==
    count <= RETRY_ATTEMPTS /\ err \in {"SERVER_ERROR", "API_ERROR"}

\* lines 359-360
ShouldRetry(count, err) ==
    count < RETRY_ATTEMPTS /\ err \in {"SERVER_ERROR", "API_ERROR"}

Statuses  == {200, 400, 429, 500, 503, 504}
BodyKinds == {"valid", "no_response_field", "unparseable", "read_error"}

\* How one attempt ended.
Outcome(kind, status) == [kind |-> kind, status |-> status]

\* An attempt that ended in a timeout (abort or HTTP 504) or in an HTTP 429.
FastFail(outcome) ==
    \/ outcome.kind = "abort"
    \/ outcome.kind = "http" /\ outcome.status \in {429, 504}

-----------------------------------------------------------------------------
(* Chat widget: sendMessage (part_004:630-705).                            *)

\* lines 634-638 without the length test
TooLong_Never(text) == FALSE

\* line 634: text.length > CONFIG.MAX_MESSAGE_LENGTH
TooLong(text) == StrLen(text) > CLIENT_MAX_MESSAGE_LENGTH

\* line 631 without the processing flag
SendRejected_TextOnly(text, processing) == StrLen(Trim(text)) = 0

\* line 631: !text.trim() || isProcessing
SendRejected(text, processing) == StrLen(Trim(text)) = 0 \/ processing

\* lines 672-686 dropping the turn of a failed call
FinishSend_DropError(history, text) ==
    IF text = "reply" THEN addMessage(history, text, FALSE, "normal") ELSE history

\* lines 672-686: the response or the error message becomes the bot turn
FinishSend(history, text) == addMessage(history, text, FALSE, "normal")

TextInputs == {Lit("", 0), Str("ws", 1, 0, 0),
               Lit("max", CLIENT_MAX_MESSAGE_LENGTH),
               Lit("long", CLIENT_MAX_MESSAGE_LENGTH + 1)}

\* sendLog: the attempts issued and ended in the send, whether every ended
\* attempt got an HTTP 500, whether one ended as FastFail, the bot turns the
\* send appended and what it surfaced.
NoSend == [admitted |-> FALSE, attempts |-> 0, ended |-> 0, only500 |-> TRUE,
           fastFailed |-> FALSE, botTurns |-> 0, surfaced |-> "none"]

Ended(log, outcome) ==
    [log EXCEPT !.ended = @ + 1,
                !.only500 = @ /\ outcome = Outcome("http", 500),
                !.fastFailed = @ \/ FastFail(outcome)]

\* lastCall: the text sendMessage was called with, how the call went on
\* ("ignored": the return of line 631, nothing is shown; "alert"; "warning";
\* "sent"), whether a send was processing, the turns it appended, whether it
\* recorded a timestamp and the requests it issued.
NoCall == [text |-> NoData, outcome |-> "none", wasProcessing |-> FALSE, appended |-> 0,
           recorded |-> FALSE, issued |-> 0]

Call(text, outcome, appended, recorded, issued) ==
    [text |-> text, outcome |-> outcome, wasProcessing |-> isProcessing,
     appended |-> appended, recorded |-> recorded, issued |-> issued]

callVars == <<pc, retryCount, abortTimer, respStatus, backoffMs, inflight>>

\* line 631: the call returns at once
SendIgnored ==
    \E text \in TextInputs :
        /\ Len(messageHistory) < MaxTurns
        /\ SendRejected(text, isProcessing)
        /\ lastCall' = Call(text, "ignored", 0, FALSE, 0)
        /\ UNCHANGED <<now, proxyVars, contactVars, widgetVars, wire, isProcessing, useAI, messageHistory,
                       storedHistory, messageTimes, callVars, sendLog, checkVars>>

\* lines 634-638: alert and return
SendTooLong ==
    \E text \in TextInputs :
        /\ Len(messageHistory) < MaxTurns
        /\ ~SendRejected(text, isProcessing)
        /\ TooLong(text)
        /\ lastCall' = Call(text, "alert", 0, FALSE, 0)
        /\ UNCHANGED <<now, proxyVars, contactVars, widgetVars, wire, isProcessing, useAI, messageHistory,
                       storedHistory, messageTimes, callVars, sendLog, checkVars>>

\* lines 641-646: the rate limiter denies, a warning is shown
SendDenied ==
    \E text \in TextInputs, writeOk \in BOOLEAN :
        LET rl == checkRateLimit(messageTimes, now, writeOk)
        IN  /\ Len(messageHistory) < MaxTurns
            /\ ~SendRejected(text, isProcessing)
            /\ ~TooLong(text)
            /\ ~rl.allowed
            /\ messageTimes' = rl.stored
            /\ lastCheck' = CheckRecord(messageTimes, now, writeOk, rl)
            /\ allowedAt' = AllowedLog(now, rl)
            /\ messageHistory' = addMessage(messageHistory, rl.tier, FALSE, "warning")
            /\ lastCall' = Call(text, "warning", Len(messageHistory') - Len(messageHistory),
                                messageTimes' # messageTimes, 0)
            /\ UNCHANGED <<now, proxyVars, contactVars, widgetVars, wire, isProcessing, useAI, storedHistory,
                           callVars, sendLog>>

\* lines 648-670: the send is admitted; with USE_AI the first attempt is issued
\* (callAI runs up to its await fetch), without it lines 677-704 run at once
SendAdmitted ==
    \E text \in TextInputs, writeOk \in BOOLEAN :
        LET rl       == checkRateLimit(messageTimes, now, writeOk)
            withUser == addMessage(messageHistory, text.lit, TRUE, "normal")
        IN  /\ Len(messageHistory) < MaxTurns
            /\ Len(allowedAt) < MaxAllowed
            /\ ~SendRejected(text, isProcessing)
            /\ ~TooLong(text)
            /\ rl.allowed
            /\ messageTimes' = rl.stored
            /\ lastCheck' = CheckRecord(messageTimes, now, writeOk, rl)
            /\ allowedAt' = AllowedLog(now, rl)
            /\ IF useAI
               THEN /\ messageHistory' = withUser
                    /\ isProcessing' = TRUE
                    /\ pc' = "fetch"
                    /\ retryCount' = 0
                    /\ abortTimer' = TRUE
                    /\ inflight' = inflight + 1
                    /\ sendLog' = [NoSend EXCEPT !.admitted = TRUE, !.attempts = 1]
                    /\ UNCHANGED <<respStatus, backoffMs>>
               ELSE /\ messageHistory' = FinishSend(withUser, "services")
                    /\ isProcessing' = FALSE
                    /\ sendLog' = [NoSend EXCEPT !.admitted = TRUE,
                                     !.botTurns = Len(messageHistory') - Len(withUser),
                                     !.surfaced = "fallback"]
                    /\ UNCHANGED callVars
            /\ storedHistory' = storeConversation(messageHistory')
            /\ lastCall' = Call(text, "sent", Len(withUser) - Len(messageHistory),
                                messageTimes' # messageTimes, inflight' - inflight)
            /\ UNCHANGED <<now, proxyVars, contactVars, widgetVars, wire, useAI>>

\* The pending sendMessage resumes after callAI settled: lines 671-704.
Finish(outcome, surfaced, text) ==
    /\ messageHistory' = FinishSend(messageHistory, text)
    /\ storedHistory' = storeConversation(messageHistory')
    /\ isProcessing' = FALSE
    /\ pc' = "idle"
    /\ abortTimer' = FALSE
    /\ inflight' = inflight - 1
    /\ retryCount' = 0
    /\ respStatus' = 0
    /\ sendLog' = [Ended(sendLog, outcome) EXCEPT
                     !.surfaced = surfaced,
                     !.botTurns = @ + Len(messageHistory') - Len(messageHistory)]
    /\ UNCHANGED <<now, proxyVars, contactVars, widgetVars, wire, useAI, messageTimes, backoffMs, lastCall, checkVars>>

\* The catch block of callAI from line 358 on: retry after a backoff, or throw.
AttemptFailed(outcome, err) ==
    IF ShouldRetry(retryCount, err)
    THEN /\ pc' = "backoff"
         /\ backoffMs' = BACKOFF_STEP_MS * (retryCount + 1)
         /\ abortTimer' = FALSE
         /\ inflight' = inflight - 1
         /\ respStatus' = 0
         /\ sendLog' = Ended(sendLog, outcome)
         /\ UNCHANGED <<now, proxyVars, contactVars, widgetVars, wire, isProcessing, useAI, messageHistory,
                        storedHistory, messageTimes, retryCount, lastCall, checkVars>>
    ELSE Finish(outcome, err, getErrorMessage(err))

\* fetch resolves with the response headers; line 317 clears the abort timer
FetchResponds ==
    \E status \in Statuses :
        /\ pc = "fetch"
        /\ pc' = "body"
        /\ respStatus' = status
        /\ abortTimer' = FALSE
        /\ UNCHANGED <<now, proxyVars, contactVars, widgetVars, wire, isProcessing, useAI, messageHistory,
                       storedHistory, messageTimes, retryCount, backoffMs, inflight,
                       sendLog, lastCall, checkVars>>

\* response.json() settles: lines 319-341
BodyArrives ==
    \E body \in BodyKinds, readErr \in {"NETWORK_ERROR", "OTHER"} :
        /\ pc = "body"
        /\ IF respStatus < 200 \/ respStatus > 299
           THEN AttemptFailed(Outcome("http", respStatus), StatusError(respStatus))
           ELSE CASE body = "valid" ->
                       Finish(Outcome("http", respStatus), "success", "reply")
                  [] body = "no_response_field" ->
                       AttemptFailed(Outcome("bad_body", respStatus), "INVALID_RESPONSE")
                  [] body = "unparseable" ->
                       AttemptFailed(Outcome("bad_body", respStatus), "OTHER")
                  [] body = "read_error" ->
                       IF readErr = "NETWORK_ERROR"
                       THEN Finish(Outcome("network", respStatus), readErr,
                                   getErrorMessage(readErr))
                       ELSE AttemptFailed(Outcome("network", respStatus), readErr)

\* fetch rejects with a TypeError; line 354 makes it NETWORK_ERROR when its
\* message mentions fetch, which depends on the browser
FetchFails ==
    \E err \in {"NETWORK_ERROR", "OTHER"} :
        /\ pc = "fetch"
        /\ IF err = "NETWORK_ERROR"
           THEN Finish(Outcome("network", 0), err, getErrorMessage(err))
           ELSE AttemptFailed(Outcome("network", 0), err)

\* the abort timer of line 299 fires: fetch rejects with AbortError, line 350
AbortFires ==
    /\ pc = "fetch"
    /\ abortTimer
    /\ Finish(Outcome("abort", 0), "TIMEOUT", getErrorMessage("TIMEOUT"))

\* the backoff timer of line 362 fires: callAI(message, retryCount + 1)
BackoffFires ==
    /\ pc = "backoff"
    /\ pc' = "fetch"
    /\ retryCount' = retryCount + 1
    /\ abortTimer' = TRUE
    /\ inflight' = inflight + 1
    /\ backoffMs' = 0
    /\ sendLog' = [sendLog EXCEPT !.attempts = @ + 1]
    /\ UNCHANGED <<now, proxyVars, contactVars, widgetVars, wire, isProcessing, useAI, messageHistory,
                   storedHistory, messageTimes, respStatus, lastCall, checkVars>>

\* window.ChatbotWidget.setAIEnabled (part_004:1018)
SetAIEnabled ==
    \E enabled \in BOOLEAN :
        /\ useAI # enabled
        /\ useAI' = enabled
        /\ UNCHANGED <<now, proxyVars, contactVars, widgetVars, wire, isProcessing, messageHistory, storedHistory,
                       messageTimes, callVars, sendLog, lastCall, checkVars>>

\* checkRateLimit called on its own
LimiterCheck ==
    \E writeOk \in BOOLEAN :
        LET r == checkRateLimit(messageTimes, now, writeOk)
        IN  /\ Len(allowedAt) < MaxAllowed
            /\ messageTimes' = r.stored
            /\ lastCheck' = CheckRecord(messageTimes, now, writeOk, r)
            /\ allowedAt' = AllowedLog(now, r)
            /\ UNCHANGED <<now, proxyVars, contactVars, widgetVars, wire, isProcessing, useAI, messageHistory,
                           storedHistory, callVars, sendLog, lastCall>>

\* Time passes in the browser, for a short while.
ClientShortTick ==
    /\ now < MaxSendTime
    /\ now' = now + 1
    /\ UNCHANGED <<proxyVars, clientVars, contactVars>>

\* Time passes in the browser.
ClientTick ==
    /\ now < MaxClientTime
    /\ now' = now + 1
    /\ UNCHANGED <<proxyVars, clientVars, contactVars>>

-----------------------------------------------------------------------------
(* Chat widget: window, greeting and history (part_004:196-226, 425-431,   *)
(* 959-970, 1012-1019).  The elements of the widget are in the page.       *)

Greeting == Turn("greeting", FALSE)

\* loadConversation: a stored conversation replaces messageHistory
loadConversation(history, stored) == IF stored # <<>> THEN stored ELSE history

sendVars == <<isProcessing, useAI, messageTimes, callVars, sendLog, lastCall, checkVars>>

\* toggleChatbot (the toggle button, the close button, Escape, open/close of
\* window.ChatbotWidget): on opening with an empty history the stored
\* conversation is loaded, and initGreeting is called if there is none
ToggleChatbot ==
    LET loaded == loadConversation(messageHistory, storedHistory)
    IN  /\ isOpen' = ~isOpen
        /\ IF ~isOpen /\ messageHistory = <<>>
           THEN /\ messageHistory' = loaded
                /\ IF loaded = <<>>
                   THEN greetingTimers < MaxTimers /\ greetingTimers' = greetingTimers + 1
                   ELSE UNCHANGED greetingTimers
           ELSE UNCHANGED <<messageHistory, greetingTimers>>
        /\ UNCHANGED <<now, proxyVars, contactVars, wire, storedHistory, sendVars>>

\* the callback of initGreeting runs, 500 ms after the call
GreetingFires ==
    /\ greetingTimers > 0
    /\ greetingTimers' = greetingTimers - 1
    /\ IF messageHistory = <<>>
       THEN /\ messageHistory' = addMessage(messageHistory, Greeting.text, FALSE, "normal")
            /\ storedHistory' = storeConversation(messageHistory')
       ELSE UNCHANGED <<messageHistory, storedHistory>>
    /\ UNCHANGED <<now, proxyVars, contactVars, wire, isOpen, sendVars>>

\* clearHistory (window.ChatbotWidget.clearHistory)
ClearHistory ==
    /\ greetingTimers < MaxTimers
    /\ messageHistory' = <<>>
    /\ storedHistory' = <<>>
    /\ greetingTimers' = greetingTimers + 1
    /\ UNCHANGED <<now, proxyVars, contactVars, wire, isOpen, sendVars>>

\* The page is loaded again in the same tab: the script starts over (lines
\* 32-35), its timers and requests are gone, sessionStorage and localStorage
\* are kept.
Reload ==
    /\ messageHistory' = <<>>
    /\ isOpen' = FALSE
    /\ greetingTimers' = 0
    /\ isProcessing' = FALSE
    /\ useAI' = TRUE
    /\ pc' = "idle"
    /\ retryCount' = 0
    /\ abortTimer' = FALSE
    /\ respStatus' = 0
    /\ backoffMs' = 0
    /\ inflight' = 0
    /\ sendLog' = NoSend
    /\ lastCall' = NoCall
    /\ UNCHANGED <<now, proxyVars, contactVars, wire, storedHistory, messageTimes, checkVars>>

\* addMessage called with a normal turn: a question, then its answer
AddMessage ==
    \E isUser \in BOOLEAN, text \in {"question", "reply"} :
        /\ Len(messageHistory) < MaxConversation
        /\ isUser = (messageHistory = <<>> \/ ~messageHistory[Len(messageHistory)].isUser)
        /\ isUser = (text = "question")
        /\ messageHistory' = addMessage(messageHistory, text, isUser, "normal")
        /\ storedHistory' = storeConversation(messageHistory')
        /\ UNCHANGED <<now, proxyVars, contactVars, wire, widgetVars, sendVars>>

-----------------------------------------------------------------------------
(* Contact-form proxy: strings (contact-form-proxy.js:51-110).             *)
(* A text is kept run-length encoded: a sequence of runs of one character  *)
(* class, no two neighbouring runs of the same class.  The classes are     *)
(* "a" (a lower-case letter), "A" (an upper-case letter), " " (white       *)
(* space), "@" and ".".                                                    *)

Run(c, n) == [c |-> c, n |-> n]
Text(runs) == [t |-> "text", runs |-> runs]
Empty == Text(<<>>)
JTrue == [t |-> "true"]
JFalse == [t |-> "false"]

\* A non-empty string that the code only compares and passes on.
Word(w) == [t |-> "word", w |-> w]

IsText(v) == v.t = "text"

RECURSIVE RunsLen(_)
RunsLen(runs) == IF runs = <<>> THEN 0 ELSE Head(runs).n + RunsLen(Tail(runs))

\* neighbouring runs of one class become one run
RECURSIVE Merge(_)
Merge(runs) ==
    IF Len(runs) < 2 THEN runs
    ELSE IF runs[1].c = runs[2].c
    THEN Merge(<<Run(runs[1].c, runs[1].n + runs[2].n)>> \o SubSeq(runs, 3, Len(runs)))
    ELSE <<runs[1]>> \o Merge(Tail(runs))

\* String.prototype.trim
TrimRuns(runs) ==
    LET front == IF runs # <<>> /\ Head(runs).c = " " THEN Tail(runs) ELSE runs
    IN  IF front # <<>> /\ front[Len(front)].c = " "
        THEN SubSeq(front, 1, Len(front) - 1) ELSE front

\* String.prototype.substring(0, k)
RECURSIVE Take(_, _)
Take(runs, k) ==
    IF runs = <<>> \/ k <= 0 THEN <<>>
    ELSE IF Head(runs).n <= k
    THEN <<Head(runs)>> \o Take(Tail(runs), k - Head(runs).n)
    ELSE <<Run(Head(runs).c, k)>>

\* String.prototype.toLowerCase
ToLowerCase(runs) ==
    Merge([i \in 1..Len(runs) |->
              Run(IF runs[i].c = "A" THEN "a" ELSE runs[i].c, runs[i].n)])

CountOf(runs, c) == RunsLen(SelectSeq(runs, LAMBDA r : r.c = c))

\* line 75: /^[^\s@]+@[^\s@]+\.[^\s@]+$/ .test
EmailRegex(runs) ==
    /\ CountOf(runs, " ") = 0
    /\ CountOf(runs, "@") = 1
    /\ LET k      == CHOOSE i \in 1..Len(runs) : runs[i].c = "@"
           domain == SubSeq(runs, k + 1, Len(runs))
           dlen   == RunsLen(domain)
       IN  /\ k > 1
           /\ \E j \in 1..Len(domain) :
                 /\ domain[j].c = "."
                 /\ LET first == RunsLen(SubSeq(domain, 1, j - 1)) + 1
                        last  == first + domain[j].n - 1
                    IN  \E q \in first..last : q >= 2 /\ q <= dlen - 1

\* JavaScript truthiness of the values a contact field can have
CTruthy(v) ==
    CASE v.t = "undefined" -> FALSE
      [] v.t = "null"      -> FALSE
      [] v.t = "false"     -> FALSE
      [] v.t = "text"      -> RunsLen(v.runs) > 0
      [] OTHER             -> TRUE

\* a || b
OrElse(a, b) == IF CTruthy(a) THEN a ELSE b

-----------------------------------------------------------------------------
(* Contact-form proxy: configuration and rate limiter                      *)
(* (contact-form-proxy.js:17-48).  Time is on the client scale (1000 ms    *)
(* are SECOND ticks); the window and the maximum are scaled down (source:  *)
(* 10 requests per 3600 s).                                                *)

RATE_LIMIT_WINDOW == 4
MAX_REQUESTS_PER_HOUR == 2

\* the caps of lines 97-102 and the limit of line 81
NAME_CAP == 100
EMAIL_CAP == 200
COMPANY_CAP == 200
PHONE_CAP == 50
SERVICE_CAP == 100
MESSAGE_CAP == 2000

MaxContactTime == 5   \* the clock of the contact proxy stops advancing here

\* line 138: the whole x-forwarded-for header, else client-ip, else 'unknown'.
\* A header value is kept as the sequence of its comma-separated entries.
ContactKey(headers) ==
    IF Len(headers.xff) > 0 THEN headers.xff
    ELSE IF headers.clientIp # NoHeader THEN <<headers.clientIp>>
    ELSE <<"unknown">>

ContactHeaders == Headers \cup {[xff |-> <<"1.1.1.1">>, clientIp |-> NoHeader]}
ContactKeys == {ContactKey(h) : h \in ContactHeaders}

\* checkRateLimit(ip) of the contact proxy
checkRateLimitContact(store, key, t) ==
    LET recentRequests == Within(store[key], t, RATE_LIMIT_WINDOW)
    IN  IF Len(recentRequests) >= MAX_REQUESTS_PER_HOUR
        THEN [store |-> store, allowed |-> FALSE,
              retryAfter |-> CeilDiv(MinOf(recentRequests) + RATE_LIMIT_WINDOW - t, SECOND)]
        ELSE [store |-> [store EXCEPT ![key] = Append(recentRequests, t)],
              allowed |-> TRUE, retryAfter |-> 0]

-----------------------------------------------------------------------------
(* Contact-form proxy: validateAndSanitize (contact-form-proxy.js:51-110). *)

SourceWebsite   == Word("website-contact-form")
SourcePdf       == Word("pdf-download")
DefaultLanguage == Word("ja")

\* lines 55-64
Normalize(data) ==
    [name     |-> OrElse(OrElse(Get(data, "name"), Get(data, "firstname")), Empty),
     email    |-> OrElse(Get(data, "email"), Empty),
     company  |-> OrElse(Get(data, "company"), Empty),
     phone    |-> OrElse(Get(data, "phone"), Empty),
     service  |-> OrElse(OrElse(Get(data, "service"), Get(data, "projectType")), Empty),
     message  |-> OrElse(Get(data, "message"), Empty),
     consent  |-> Get(data, "consent"),
     language |-> OrElse(Get(data, "language"), DefaultLanguage)]

\* line 69, negated
RequiredOk(v) == CTruthy(v) /\ IsText(v) /\ TrimRuns(v.runs) # <<>>

\* lines 67-83: the errors collected
ErrorsOf(n) ==
    {f \in {"name", "email", "message"} : ~RequiredOk(n[f])}
    \cup (IF CTruthy(n.email) /\ ~(IsText(n.email) /\ EmailRegex(n.email.runs))
          THEN {"Invalid email format"} ELSE {})
    \cup (IF CTruthy(n.message) /\ IsText(n.message)
             /\ RunsLen(n.message.runs) > MESSAGE_CAP
          THEN {"Message too long"} ELSE {})

\* lines 91-94
RequestedSource(data) ==
    IF CTruthy(Get(data, "source")) /\ Get(data, "source") \in {SourceWebsite, SourcePdf}
    THEN Get(data, "source") ELSE SourceWebsite

\* v.trim().substring(0, cap)
Capped(v, cap) == Text(Take(TrimRuns(v.runs), cap))

\* lines 99-101: v ? v.trim().substring(0, cap) : ''
Optional(v, cap) == IF CTruthy(v) THEN Capped(v, cap) ELSE Empty

\* line 98 without toLowerCase
SanitizeEmail_KeepCase(v) == Text(Take(TrimRuns(v.runs), EMAIL_CAP))

\* line 98
SanitizeEmail(v) == Text(Take(ToLowerCase(TrimRuns(v.runs)), EMAIL_CAP))

\* validateAndSanitize at time t: invalid with its errors, a TypeError thrown
\* (reading a field of null, or .trim of a truthy value that is no string),
\* or valid with the sanitized data
validateAndSanitize(data, t) ==
    IF ReadThrows(data)
    THEN [kind |-> "throw", errors |-> {}, data |-> NoData]
    ELSE LET n == Normalize(data)
         IN  IF ErrorsOf(n) # {}
             THEN [kind |-> "invalid", errors |-> ErrorsOf(n), data |-> NoData]
             ELSE IF \E f \in {"company", "phone", "service"} :
                        CTruthy(n[f]) /\ ~IsText(n[f])
             THEN [kind |-> "throw", errors |-> {}, data |-> NoData]
             ELSE [kind |-> "valid", errors |-> {},
                   data |-> [name      |-> Capped(n.name, NAME_CAP),
                             email     |-> SanitizeEmail(n.email),
                             company   |-> Optional(n.company, COMPANY_CAP),
                             phone     |-> Optional(n.phone, PHONE_CAP),
                             service   |-> Optional(n.service, SERVICE_CAP),
                             message   |-> Capped(n.message, MESSAGE_CAP),
                             consent   |-> n.consent \in {JTrue, Word("true")},
                             language  |-> n.language,
                             timestamp |-> t,
                             source    |-> RequestedSource(data)]]

-----------------------------------------------------------------------------
(* Contact-form proxy: exports.handler (contact-form-proxy.js:113-259).    *)

ContactResponse(st, err, retryAfter, fwd) ==
    [status |-> st, error |-> err, retryAfter |-> retryAfter, fwd |-> fwd]

\* What fetch does with the forwarded form: it resolves with a status, it
\* rejects with a network error, or the abort timer of line 199 fires.
ContactUpstream ==
    [kind : {"status"}, status : {200, 400, 502}]
    \cup {[kind |-> "network_error", status |-> 0], [kind |-> "abort", status |-> 0]}

\* line 159: JSON.parse(event.body); a null event.body parses to null
ContactParse(raw) == IF raw = EmptyBody THEN JNull ELSE raw

\* lines 156-258: the request after the rate limiter admitted it
AfterContactRateLimit(raw, t, urlSet, keySet, up) ==
    IF raw = BadJson THEN ContactResponse(400, "Invalid JSON format", 0, NoData)
    ELSE LET validation == validateAndSanitize(ContactParse(raw), t)
         IN  IF validation.kind = "throw"
             THEN ContactResponse(500, "Internal server error", 0, NoData)
             ELSE IF validation.kind = "invalid"
             THEN ContactResponse(400, "Validation failed", 0, NoData)
             ELSE IF ~urlSet \/ ~keySet
             THEN ContactResponse(500, "Server configuration error", 0, NoData)
             ELSE IF up.kind = "abort"
             THEN ContactResponse(504, "Request timeout", 0, validation.data)
             ELSE IF up.kind = "network_error"
             THEN ContactResponse(500, "Internal server error", 0, validation.data)
             ELSE IF up.status < 200 \/ up.status > 299
             THEN ContactResponse(up.status, "Failed to process form", 0, validation.data)
             ELSE ContactResponse(200, "none", 0, validation.data)

\* exports.handler of the contact proxy
contactHandler(store, t, method, headers, raw, urlSet, keySet, up) ==
    IF method = "OPTIONS"
    THEN [store |-> store, allowed |-> FALSE,
          resp |-> ContactResponse(200, "none", 0, NoData)]
    ELSE IF method # "POST"
    THEN [store |-> store, allowed |-> FALSE,
          resp |-> ContactResponse(405, "Method not allowed", 0, NoData)]
    ELSE LET rl == checkRateLimitContact(store, ContactKey(headers), t)
         IN  IF ~rl.allowed
             THEN [store |-> rl.store, allowed |-> FALSE,
                   resp |-> ContactResponse(429, "Too many requests", rl.retryAfter, NoData)]
             ELSE [store |-> rl.store, allowed |-> TRUE,
                   resp |-> AfterContactRateLimit(raw, t, urlSet, keySet, up)]

-----------------------------------------------------------------------------
(* Requests the contact proxy is sent.                                     *)

Bob == Text(<<Run("A", 1), Run("a", 2)>>)
GoodEmail == Text(<<Run("a", 3), Run("@", 1), Run("a", 7), Run(".", 1), Run("a", 3)>>)
Hello == Text(<<Run("A", 1), Run("a", 4)>>)

\* a text of n lower-case letters, the same with white space around it, and a
\* text whose character number cap is white space
Letters(n) == Text(<<Run("a", n)>>)
Padded(v) == Text(<<Run(" ", 1)>> \o v.runs \o <<Run(" ", 2)>>)
SpaceAt(cap) == Text(<<Run("a", cap - 1), Run(" ", 1), Run("a", 3)>>)

NotStrings == {Undefined, JNull, JNumber, Empty, Text(<<Run(" ", 2)>>)}

NameInputs ==
    NotStrings \cup {Bob, Padded(Bob), Letters(NAME_CAP), Letters(NAME_CAP + 1),
                     SpaceAt(NAME_CAP)}

EmailInputs ==
    NotStrings
    \cup {GoodEmail, Padded(GoodEmail),
          Text(<<Run("A", 3), Run("@", 1), Run("a", 7), Run(".", 1), Run("A", 3)>>),
          Text(<<Run("a", 3), Run("@", 1), Run("a", 7)>>),
          Text(<<Run("a", 3), Run("@", 2), Run("a", 7), Run(".", 1), Run("a", 3)>>),
          Text(<<Run("a", 3), Run("@", 1), Run(".", 1), Run("a", 3)>>),
          Text(<<Run("a", 3), Run("@", 1), Run("a", 3), Run(".", 1)>>),
          Text(<<Run("@", 1), Run("a", 7), Run(".", 1), Run("a", 3)>>),
          Text(<<Run("a", 3), Run(" ", 1), Run("a", 1), Run("@", 1), Run("a", 7),
                 Run(".", 1), Run("a", 3)>>),
          Text(<<Run("a", EMAIL_CAP), Run("@", 1), Run("a", 7), Run(".", 1), Run("a", 3)>>)}

ContactMessages ==
    NotStrings
    \cup {Hello, Padded(Hello), Letters(MESSAGE_CAP), Letters(MESSAGE_CAP + 1),
          Text(<<Run("a", MESSAGE_CAP), Run(" ", 1)>>),
          Text(<<Run(" ", 1), Run("a", MESSAGE_CAP - 1)>>),
          Text(<<Run(" ", 1), Run("a", MESSAGE_CAP + 1)>>)}

OptionalInputs(cap) ==
    NotStrings \cup {JTrue, Bob, Padded(Bob), Letters(cap), Letters(cap + 1), SpaceAt(cap)}

SourceInputs == {Undefined, JNumber, SourceWebsite, SourcePdf, Word("newsletter")}

CanonicalContact == [t |-> "object", name |-> Bob, email |-> GoodEmail, message |-> Hello]

\* the canonical form with one field set
With(field, v) == (field :> v) @@ CanonicalContact

ContactBodies ==
    {BadJson, EmptyBody, JNumber, JObject, CanonicalContact}
    \cup {With("name", v) : v \in NameInputs}
    \cup {With("email", v) : v \in EmailInputs}
    \cup {With("message", v) : v \in ContactMessages}
    \cup {With("company", v) : v \in OptionalInputs(COMPANY_CAP)}
    \cup {With("phone", v) : v \in OptionalInputs(PHONE_CAP)}
    \cup {With("service", v) : v \in OptionalInputs(SERVICE_CAP)}
    \cup {With("source", v) : v \in SourceInputs}
    \cup {With("consent", v) : v \in {JTrue, Word("true"), Word("yes"), JNumber}}
    \cup {With("language", v) : v \in {Word("en"), Word("fr"), JNumber}}
    \cup {("firstname" :> Padded(Bob)) @@ With("name", v) : v \in NotStrings}
    \cup {("projectType" :> Padded(Bob)) @@ With("service", v) : v \in NotStrings \cup {Hello}}

ContactRequestsOver(bodies) ==
    [method : Methods \ {"POST"}, headers : ContactHeaders, raw : {EmptyBody},
     up : {[kind |-> "status", status |-> 200]}]
    \cup [method : {"POST"}, headers : ContactHeaders, raw : bodies,
          up : {[kind |-> "status", status |-> 200]}]
    \cup [method : {"POST"}, headers : ContactHeaders, raw : {CanonicalContact},
          up : ContactUpstream]

ContactRequests == ContactRequestsOver(ContactBodies)
BriefContactRequests ==
    [method : {"POST"}, headers : ContactHeaders, raw : {BadJson, CanonicalContact},
     up : {[kind |-> "status", status |-> 200]}]

-----------------------------------------------------------------------------
(* State machine of the contact proxy.                                     *)

\* One invocation of exports.handler of the contact proxy.  It awaits only
\* the upstream call, after its last access to the store, so it is one step.
HandleContact(requests) ==
    \E req \in requests :
        LET r == contactHandler(contactStore, now, req.method, req.headers, req.raw,
                                contactUrlSet, contactKeySet, req.up)
        IN  /\ lastContact = NoContact
            /\ lastReq = NoReq
            /\ contactStore' = r.store
            /\ lastContact' = [method |-> req.method, key |-> ContactKey(req.headers),
                               ip |-> ClientIp(req.headers), raw |-> req.raw,
                               at |-> now,
                               before |-> contactStore[ContactKey(req.headers)],
                               allowed |-> r.allowed, status |-> r.resp.status,
                               error |-> r.resp.error,
                               retryAfter |-> r.resp.retryAfter, fwd |-> r.resp.fwd]
            /\ UNCHANGED <<now, proxyVars, clientVars, contactUrlSet, contactKeySet>>

ContactRequest == HandleContact(ContactRequests)

\* The same handler under the requests of BriefContactRequests.
ContactRequestBrief == HandleContact(BriefContactRequests)

\* The response has been delivered; the invocation is over.
ContactReturned ==
    /\ lastContact # NoContact
    /\ lastContact' = NoContact
    /\ UNCHANGED <<now, proxyVars, clientVars, contactStore, contactUrlSet, contactKeySet>>

\* Time passes between invocations of the contact proxy.
ContactTick ==
    /\ lastContact = NoContact
    /\ now < MaxContactTime
    /\ now' = now + 1
    /\ UNCHANGED <<proxyVars, clientVars, contactVars>>

-----------------------------------------------------------------------------
(* Specifications.                                                         *)

ClientIdle ==
    /\ isOpen = FALSE
    /\ greetingTimers = 0
    /\ isProcessing = FALSE
    /\ useAI = TRUE
    /\ messageTimes = <<>>
    /\ pc = "idle"
    /\ retryCount = 0
    /\ abortTimer = FALSE
    /\ respStatus = 0
    /\ backoffMs = 0
    /\ inflight = 0
    /\ sendLog = NoSend
    /\ lastCall = NoCall
    /\ lastCheck = NoCheck
    /\ allowedAt = <<>>
    /\ wire = NoWire

ContactStart ==
    /\ contactStore = [k \in ContactKeys |-> <<>>]
    /\ lastContact = NoContact

ProxyStart ==
    /\ rateLimitStore = [k \in IPs |-> NoEntry]
    /\ windowStart = [k \in IPs |-> NoTime]
    /\ admittedAt = [k \in IPs |-> <<>>]
    /\ lastReq = NoReq

ClientStart ==
    /\ messageHistory = <<>>
    /\ storedHistory = <<>>
    /\ ClientIdle

\* The settings that a specification does not vary.
Configured == webhookSecretSet = TRUE /\ contactUrlSet = TRUE /\ contactKeySet = TRUE
Start == now = 0 /\ ProxyStart /\ ClientStart /\ ContactStart

InitProxy == Start /\ webhookUrlSet \in BOOLEAN /\ Configured
NextProxy == ChatRequest \/ Returned \/ ShortTick
SpecProxy == InitProxy /\ [][NextProxy]_vars

NextRateLimit == ChatRequestBrief \/ Returned \/ Tick
SpecRateLimit == InitProxy /\ [][NextRateLimit]_vars

InitClient == Start /\ webhookUrlSet = TRUE /\ Configured
NextClient ==
    \/ SendIgnored \/ SendTooLong \/ SendDenied \/ SendAdmitted
    \/ FetchResponds \/ BodyArrives \/ FetchFails \/ AbortFires \/ BackoffFires
    \/ SetAIEnabled \/ ClientShortTick
SpecClient == InitClient /\ [][NextClient]_vars

\* The browser fires a timer that stays due.
LiveClient == SpecClient /\ WF_vars(AbortFires) /\ WF_vars(BackoffFires)

NextLimiter == LimiterCheck \/ ClientTick
SpecLimiter == InitClient /\ [][NextLimiter]_vars

\* The widget applies getHistoryForAPI to the conversation it holds.
GetHistoryForAPI ==
    /\ wire' = getHistoryForAPI(messageHistory)
    /\ UNCHANGED <<now, proxyVars, contactVars, widgetVars, isProcessing, useAI,
                   messageHistory, storedHistory, messageTimes, callVars, sendLog,
                   lastCall, checkVars>>

\* Conversations that loadConversation (part_004:196-213) restores.
LoadedTurns == {Turn("question", TRUE), Turn("reply", FALSE)}
LoadedHistories == UNION {[1..n -> LoadedTurns] : n \in 0..MaxLoaded}

InitWire ==
    /\ now = 0 /\ ProxyStart /\ ContactStart /\ ClientIdle
    /\ webhookUrlSet = TRUE /\ Configured
    /\ messageHistory \in LoadedHistories
    /\ storedHistory = messageHistory
NextWire == GetHistoryForAPI
SpecWire == InitWire /\ [][NextWire]_vars

\* The body of the request that callAI sends (part_004:308-313) as the proxy
\* parses it.  The proxy reads no length of a history item's content.
WireItem(e) ==
    [t |-> "object",
     role |-> IF e.role = "user" THEN RoleUser ELSE RoleAssistant,
     content |-> Lit(e.content, 1)]
RequestBody(history) ==
    LET sent == getHistoryForAPI(history)
    IN  MkBody(Lit("max", CLIENT_MAX_MESSAGE_LENGTH), LangJa, ValidSessionId,
               JArray([i \in 1..Len(sent) |-> WireItem(sent[i])]))

\* The pending fetch reaches the chat proxy, whose response resolves it:
\* exports.handler runs on the request body, then part_004:317.
ProxyAnswers ==
    \E up \in UpstreamOutcomes :
        LET ip  == "1.1.1.1"
            raw == RequestBody(messageHistory)
            r   == handler(rateLimitStore, now, "POST", ip, raw, webhookUrlSet, up)
        IN  /\ pc = "fetch"
            /\ Handled("POST", ip, raw, up, r)
            /\ pc' = "body"
            /\ respStatus' = r.resp.status
            /\ abortTimer' = FALSE
            /\ wire' = getHistoryForAPI(messageHistory)
            /\ UNCHANGED <<now, webhookUrlSet, webhookSecretSet, contactVars,
                           widgetVars, isProcessing, useAI, messageHistory, storedHistory,
                           messageTimes, retryCount, backoffMs, inflight, sendLog,
                           lastCall, checkVars>>

\* The widget and the chat proxy together.
InitEndToEnd == Start /\ webhookUrlSet \in BOOLEAN /\ Configured
NextEndToEnd ==
    \/ SendAdmitted \/ SendDenied \/ ProxyAnswers \/ BodyArrives \/ BackoffFires
    \/ ClientShortTick
SpecEndToEnd == InitEndToEnd /\ [][NextEndToEnd]_vars

\* Both proxies under every combination of their settings.
InitConfig ==
    /\ Start
    /\ webhookUrlSet \in BOOLEAN /\ webhookSecretSet \in BOOLEAN
    /\ contactUrlSet \in BOOLEAN /\ contactKeySet \in BOOLEAN
NextConfig == ChatRequestBrief \/ Returned \/ ContactRequestBrief \/ ContactReturned
SpecConfig == InitConfig /\ [][NextConfig]_vars

\* The contact proxy under every request body.
InitContact ==
    /\ Start
    /\ webhookUrlSet = TRUE /\ webhookSecretSet = TRUE
    /\ contactUrlSet \in BOOLEAN /\ contactKeySet \in BOOLEAN
NextContact == ContactRequest \/ ContactReturned
SpecContact == InitContact /\ [][NextContact]_vars

\* The contact proxy under one body of each kind, as time passes.
NextContactRate == ContactRequestBrief \/ ContactReturned \/ ContactTick
SpecContactRate == InitClient /\ [][NextContactRate]_vars

\* The conversation store under addMessage, clearHistory and the greeting,
\* from conversations of every length around the stored maximum.
Conversation(n) == [i \in 1..n |-> Turn(IF i % 2 = 1 THEN "question" ELSE "reply", i % 2 = 1)]
InitConversation ==
    /\ now = 0 /\ ProxyStart /\ ContactStart /\ ClientIdle
    /\ webhookUrlSet = TRUE /\ Configured
    /\ \E n \in {0, 1, STORED_HISTORY_LIMIT - 1, STORED_HISTORY_LIMIT,
                 STORED_HISTORY_LIMIT + 1} :
          messageHistory = Conversation(n)
    /\ storedHistory = storeConversation(messageHistory)
NextConversation == AddMessage \/ ClearHistory \/ GreetingFires \/ ToggleChatbot
SpecConversation == InitConversation /\ [][NextConversation]_vars

\* The widget opened, closed and cleared while messages are sent.
NextGreeting ==
    \/ ToggleChatbot \/ GreetingFires \/ ClearHistory
    \/ SendAdmitted \/ AbortFires
SpecGreeting == InitClient /\ [][NextGreeting]_vars

\* The browser runs the greeting callback that is due.
LiveGreeting == SpecGreeting /\ WF_vars(GreetingFires)

\* The widget in one tab, across reloads of the page.
NextWidget ==
    \/ ToggleChatbot \/ GreetingFires \/ ClearHistory \/ Reload
    \/ SendAdmitted \/ FetchResponds \/ BodyArrives
SpecWidget == InitClient /\ [][NextWidget]_vars

-----------------------------------------------------------------------------
(* Claims.                                                                 *)

IsPost == lastReq.method = "POST"

\* C1, first half: within the window that starts at windowStart (the request
\* that created or reset the entry), a request is admitted exactly while fewer
\* than RATE_LIMIT_PER_MINUTE were admitted.
C1_FirstMaxAdmitted ==
    (IsPost /\ lastReq.startBefore # NoTime
        /\ lastReq.at - lastReq.startBefore <= ONE_MINUTE)
    => (lastReq.allowed <=> lastReq.before.count < RATE_LIMIT_PER_MINUTE)

\* C1, second half: once the window that started at windowStart has elapsed,
\* the next request of the identity is admitted.
C1_ResetAfterWindow ==
    (IsPost /\ lastReq.startBefore # NoTime
        /\ lastReq.at - lastReq.startBefore > ONE_MINUTE)
    => lastReq.allowed

\* C1: the chat proxy admits exactly the first max requests of a window that
\* starts at windowStart, denies the next one, and admits again once that
\* window has elapsed.
C1_FixedWindow == C1_FirstMaxAdmitted /\ C1_ResetAfterWindow

\* C2: a send whose attempts all got HTTP 500 made exactly 3 attempts and
\* surfaced SERVER_ERROR; the backoff before a retry is 1000 ms times the
\* number of attempts made; after an attempt that ended in a timeout (abort
\* or 504) or a 429 no further attempt is issued.
C2_RetryBound ==
    /\ (sendLog.admitted /\ pc = "idle" /\ sendLog.ended > 0 /\ sendLog.only500)
        => (sendLog.attempts = 3 /\ sendLog.surfaced = "SERVER_ERROR")
    /\ pc = "backoff" => backoffMs = 1000 * sendLog.attempts
    /\ sendLog.fastFailed => (pc = "idle" /\ sendLog.attempts = sendLog.ended)
    /\ sendLog.attempts <= 3

\* C2 witness: a send ended after three attempts that all got HTTP 500.
C2_Witness ==
    /\ sendLog.admitted /\ pc = "idle" /\ sendLog.only500
    /\ sendLog.ended = 3 /\ sendLog.surfaced = "SERVER_ERROR"

\* C3: at most one request of the client is outstanding, and only while the
\* processing flag is set; none is outstanding during a retry backoff; a
\* sendMessage call made while the flag is set appends no turn, records no
\* rate-limit timestamp and issues no request.
C3_InFlightExclusive ==
    /\ inflight \in {0, 1}
    /\ (inflight = 1 <=> pc \in {"fetch", "body"})
    /\ (pc # "idle" <=> isProcessing)
    /\ lastCall.wasProcessing =>
          /\ lastCall.outcome = "ignored"
          /\ lastCall.appended = 0
          /\ ~lastCall.recorded
          /\ lastCall.issued = 0

\* C3 witness: a send was attempted and rejected while the pending send
\* waits in its retry backoff.
C3_Witness == pc = "backoff" /\ lastCall.wasProcessing /\ lastCall.outcome = "ignored"

\* C4: an admitted send has appended no bot turn while it is pending and
\* exactly one when it has completed: the response if the call succeeded,
\* else the one message of the error it surfaced; that turn ends the history
\* and follows the user turn.
C4_ExactlyOneBotTurn ==
    sendLog.admitted =>
        IF isProcessing
        THEN /\ sendLog.botTurns = 0
             /\ messageHistory[Len(messageHistory)].isUser
        ELSE /\ sendLog.botTurns = 1
             /\ Len(messageHistory) >= 2
             /\ ~messageHistory[Len(messageHistory)].isUser
             /\ messageHistory[Len(messageHistory) - 1].isUser
             /\ messageHistory[Len(messageHistory)].text =
                   (CASE sendLog.surfaced = "success"  -> "reply"
                      [] sendLog.surfaced = "fallback" -> "services"
                      [] OTHER -> getErrorMessage(sendLog.surfaced))

\* C4 witness: a send completed with an error after two retries.
C4_Witness ==
    /\ sendLog.admitted /\ ~isProcessing /\ sendLog.ended = 3
    /\ sendLog.botTurns = 1 /\ sendLog.surfaced # "success"

\* C5: after every admitted send the processing flag is eventually cleared,
\* assuming only that timers fire.
C5_SendTerminates == isProcessing ~> ~isProcessing

\* C5, the case the abort timer does cover: a fetch that never gets its
\* response headers ends.
C5_FetchEnds == (pc = "fetch") ~> (pc # "fetch")

\* The wire constraints of a forwarded payload.
WireOk(p) ==
    /\ IsString(p.message)
    /\ StrLen(p.message) >= 1 /\ StrLen(p.message) <= 500
    /\ p.language \in {LangJa, LangEn}
    /\ IsString(p.sessionId) /\ StrLen(p.sessionId) > 0
    /\ Len(p.history) <= 5
    /\ \A i \in 1..Len(p.history) :
          /\ p.history[i].t = "object"
          /\ Get(p.history[i], "role") \in {RoleUser, RoleAssistant}
          /\ IsString(Get(p.history[i], "content"))

\* C6: every payload the chat proxy forwards to the webhook satisfies the
\* wire constraints.
C6_ForwardedPayloadValid == lastReq.fwd # NoData => WireOk(lastReq.fwd)

\* C6 witness: a request with more than 5 history entries was forwarded with
\* its last 5.
C6_Witness ==
    /\ lastReq.fwd # NoData
    /\ Len(lastReq.fwd.history) = 5
    /\ Get(lastReq.raw, "history").t = "array"
    /\ Len(lastReq.raw.history.items) > 5

\* A parsed body whose language, sessionId and history are valid.
OthersValid(body) ==
    /\ body.t = "object"
    /\ Get(body, "language") \in {LangJa, LangEn}
    /\ IsString(Get(body, "sessionId")) /\ StrLen(Get(body, "sessionId")) > 0
    /\ \/ Get(body, "history") = Undefined
       \/ /\ Get(body, "history").t = "array"
          /\ \A i \in 1..Len(body.history.items) : ItemCheck(body.history.items[i]) = "ok"

\* The request passed the rate limiter and its body parsed, with the fields
\* other than message valid.
C7_Case ==
    /\ IsPost /\ lastReq.allowed
    /\ lastReq.raw \notin {BadJson, EmptyBody}
    /\ OthersValid(lastReq.raw)

Rejected400 == lastReq.status = 400 /\ lastReq.error = "validation_error"

\* C7 as claimed: the request is rejected with 400 validation_error exactly
\* when message is missing, not a string, or of a trimmed length outside 1..500.
C7_TrimmedLengthDecides ==
    C7_Case =>
        (Rejected400 <=>
            LET m == Get(lastReq.raw, "message")
            IN  \/ ~IsString(m)
                \/ StrLen(Trim(m)) < 1
                \/ StrLen(Trim(m)) > 500)

\* C7 as amended: the request is rejected with 400 validation_error exactly
\* when message is missing, not a string, longer than 500 characters before
\* trimming, or empty after trimming; otherwise it passes validation and the
\* trimmed message is what is forwarded.
C7_RawLengthDecides ==
    C7_Case =>
        LET m == Get(lastReq.raw, "message")
        IN  /\ Rejected400 <=>
                \/ ~IsString(m)
                \/ StrLen(m) > 500
                \/ StrLen(Trim(m)) = 0
            /\ ~Rejected400 =>
                /\ lastReq.status # 400
                /\ webhookUrlSet => (lastReq.fwd # NoData
                                     /\ lastReq.fwd.message = Trim(m))

\* C7 witness: a message of 501 characters that trims to 500 was rejected.
C7_Witness ==
    /\ C7_Case /\ Rejected400
    /\ IsString(Get(lastReq.raw, "message"))
    /\ StrLen(lastReq.raw.message) = 501
    /\ StrLen(Trim(lastReq.raw.message)) = 500

\* A history entry that meets the wire constraints.
EntryOk(item) ==
    /\ item.t = "object"
    /\ Get(item, "role") \in {RoleUser, RoleAssistant}
    /\ IsString(Get(item, "content"))

\* A parsed object body whose history is present and is not an array, or has
\* an entry among its last 5 that is not {role in {user, assistant}, string content}.
HistoryViolates(body) ==
    /\ body.t = "object"
    /\ "history" \in DOMAIN body
    /\ body.history # Undefined
    /\ \/ body.history.t # "array"
       \/ \E i \in 1..Len(body.history.items) :
             /\ i > Len(body.history.items) - 5
             /\ ~EntryOk(body.history.items[i])

\* C8 (chat proxy): a POST that passed the rate limiter, whose body parses and
\* violates the history constraints, is answered 400 validation_error and
\* nothing is forwarded.
C8_HistoryViolation400 ==
    (IsPost /\ lastReq.allowed /\ lastReq.raw \notin {BadJson, EmptyBody}
        /\ HistoryViolates(lastReq.raw))
    => (Rejected400 /\ lastReq.fwd = NoData)

\* A body the handler answers with 400.
BodyInvalid(raw) == raw = BadJson \/ validateInput(JSONparse(raw)).kind = "invalid"

\* the caller's entry before the request is still inside the minute
LiveBefore == lastReq.before.present /\ lastReq.before.timestamp >= lastReq.at - ONE_MINUTE

C10_PrunedAfterAnyCall ==
    (lastCheck.at # NoTime /\ (lastCheck.allowed => lastCheck.writeOk))
    => \A i \in 1..Len(messageTimes) : lastCheck.at - messageTimes[i] <= PER_DAY_WINDOW

\* C10 as amended: after an allowed call that persisted its result, every
\* persisted timestamp is within the largest window of the call and the last
\* one is the call's; after any other call the persisted sequence is what it
\* was before, stale timestamps included.
C10_PrunedAfterAllowedCall ==
    lastCheck.at # NoTime =>
        IF lastCheck.allowed /\ lastCheck.writeOk
        THEN /\ \A i \in 1..Len(messageTimes) :
                    lastCheck.at - messageTimes[i] < PER_DAY_WINDOW
             /\ messageTimes[Len(messageTimes)] = lastCheck.at
        ELSE messageTimes = lastCheck.before

\* C10 witness: an allowed call dropped a timestamp older than the window.
C10_Witness ==
    /\ lastCheck.at # NoTime /\ lastCheck.allowed /\ lastCheck.writeOk
    /\ \E i \in 1..Len(lastCheck.before) :
          lastCheck.at - lastCheck.before[i] > PER_DAY_WINDOW

\* The stored timestamps that a check at lastCheck.at finds within a window.
CountIn(window) ==
    Cardinality({k \in 1..Len(lastCheck.before) :
                    lastCheck.at - lastCheck.before[k] < window})

\* C11: a denied checkRateLimit call leaves the persisted sequence as it was;
\* the persisted sequence changes only in an allowed call, which appends
\* exactly one timestamp, the time of the call, to the timestamps that are
\* still inside the largest window.
C11_DenialIdempotent ==
    lastCheck.at # NoTime =>
        /\ ~lastCheck.allowed => messageTimes = lastCheck.before
        /\ messageTimes # lastCheck.before =>
              /\ lastCheck.allowed
              /\ messageTimes =
                    Append(Within(lastCheck.before, lastCheck.at, PER_DAY_WINDOW),
                           lastCheck.at)

\* C11 witness: a call was denied while the persisted sequence held a
\* timestamp older than the largest window.
C11_Witness ==
    /\ lastCheck.at # NoTime /\ ~lastCheck.allowed
    /\ \E i \in 1..Len(lastCheck.before) :
          lastCheck.at - lastCheck.before[i] >= PER_DAY_WINDOW
    /\ messageTimes = lastCheck.before

DeniesPerMinute    == CountIn(PER_MINUTE_WINDOW) >= PER_MINUTE_MAX
DeniesPer10Minutes == CountIn(PER_10_MINUTES_WINDOW) >= PER_10_MINUTES_MAX
DeniesPerDay       == CountIn(PER_DAY_WINDOW) >= PER_DAY_MAX

\* the oldest stored timestamp within a window of the check
OldestIn(window) ==
    LET inside == {lastCheck.before[k] : k \in
                      {j \in 1..Len(lastCheck.before) :
                          lastCheck.at - lastCheck.before[j] < window}}
    IN  CHOOSE x \in inside : \A y \in inside : x <= y

\* seconds until the oldest timestamp leaves the window, rounded up
RetryAfterOf(window) ==
    LET ticks == OldestIn(window) + window - lastCheck.at
    IN  CHOOSE n \in 0..window : n * SECOND >= ticks /\ (n - 1) * SECOND < ticks

\* C12: the check is allowed exactly when every tier's count is below its
\* maximum; a denial carries the reason and the retryAfter of the first tier
\* that denies in the order per minute, per 10 minutes, per day.
C12_TierPrecedence ==
    lastCheck.at # NoTime =>
        /\ lastCheck.allowed <=>
              ~(DeniesPerMinute \/ DeniesPer10Minutes \/ DeniesPerDay)
        /\ ~lastCheck.allowed =>
              IF DeniesPerMinute
              THEN /\ lastCheck.tier = "PER_MINUTE"
                   /\ lastCheck.retryAfter = RetryAfterOf(PER_MINUTE_WINDOW)
              ELSE IF DeniesPer10Minutes
              THEN /\ lastCheck.tier = "PER_10_MINUTES"
                   /\ lastCheck.retryAfter = RetryAfterOf(PER_10_MINUTES_WINDOW)
              ELSE /\ lastCheck.tier = "PER_DAY"
                   /\ lastCheck.retryAfter = RetryAfterOf(PER_DAY_WINDOW)

\* C12 witness: the per-minute and the per-10-minutes tier both deny and the
\* denial is the per-minute one.
C12_Witness ==
    /\ lastCheck.at # NoTime /\ ~lastCheck.allowed
    /\ DeniesPerMinute /\ DeniesPer10Minutes
    /\ lastCheck.tier = "PER_MINUTE"

\* C13: the history array built for a request holds exactly the last
\* min(n, 5) turns of the conversation of n turns, in their order, each as
\* {role: "user" if isUser else "assistant", content: text}.
C13_LastFiveInOrder ==
    wire # NoWire =>
        LET n == Len(messageHistory)
            k == IF n < 5 THEN n ELSE 5
        IN  /\ Len(wire) = k
            /\ \A i \in 1..k :
                  /\ wire[i].role = (IF messageHistory[n - k + i].isUser
                                     THEN "user" ELSE "assistant")
                  /\ wire[i].content = messageHistory[n - k + i].text

\* C13 witness: the array was built from a conversation of more than 5 turns
\* and holds turns of both roles.
C13_Witness ==
    /\ wire # NoWire
    /\ Len(messageHistory) > 5 /\ Len(wire) = 5
    /\ \E i, j \in 1..Len(wire) : wire[i].role = "user" /\ wire[j].role = "assistant"

\* C14: when an attempt is answered with HTTP 400, the client issues no
\* further attempt for that send: the send ends there and the bot turn it
\* appends is the default error message.
C14_ValidationErrorNotRetried ==
    [][(pc = "body" /\ respStatus = 400 /\ pc' # pc)
          => /\ pc' = "idle"
             /\ ~isProcessing'
             /\ messageHistory'[Len(messageHistory')].text = "default"]_vars

\* C14, what the client does: the first two attempts of a send that are
\* answered with HTTP 400 are followed by a retry after the backoff.
C14_RetriedLikeServerError ==
    [][(pc = "body" /\ respStatus = 400 /\ pc' # pc)
          => IF retryCount < 2
             THEN pc' = "backoff" /\ isProcessing'
             ELSE /\ pc' = "idle"
                  /\ messageHistory'[Len(messageHistory')].text = "default"]_vars

\* The chat proxy admitted a POST whose body passes validation.
ValidAdmitted ==
    /\ IsPost /\ lastReq.allowed
    /\ lastReq.raw # BadJson
    /\ validateInput(JSONparse(lastReq.raw)).kind = "valid"

\* C15, the proxy's part: without a webhook URL a valid request is answered
\* 500 with the configuration-error message and nothing is sent upstream.
C15_ProxyAnswersConfigError ==
    (ValidAdmitted /\ ~webhookUrlSet)
    => /\ lastReq.status = 500
       /\ lastReq.msg = "configuration"
       /\ lastReq.fwd = NoData

\* C15, the client's part: while the webhook URL is not configured, one send
\* makes exactly one request to the proxy.
C15_OneRequestPerSend ==
    (~webhookUrlSet /\ sendLog.admitted) => sendLog.attempts = 1

\* C15: a missing webhook URL is answered 500 with the configuration-error
\* message without contacting the upstream, and the client does not retry
\* that error.
C15_ConfigErrorNotRetried == C15_ProxyAnswersConfigError /\ C15_OneRequestPerSend

\* The contact proxy admitted a POST whose body passes validation.
ContactValidAdmitted ==
    /\ lastContact.method = "POST" /\ lastContact.allowed
    /\ lastContact.raw # BadJson
    /\ validateAndSanitize(ContactParse(lastContact.raw), lastContact.at).kind = "valid"

\* C16, chat proxy: a valid POST is answered 500 and nothing is sent
\* upstream whenever the webhook URL or the shared secret is missing.
C16_ChatProxy ==
    (ValidAdmitted /\ (~webhookUrlSet \/ ~webhookSecretSet))
    => (lastReq.status = 500 /\ lastReq.fwd = NoData)

\* C16, contact proxy: the same.
C16_ContactProxy ==
    (ContactValidAdmitted /\ (~contactUrlSet \/ ~contactKeySet))
    => (lastContact.status = 500 /\ lastContact.fwd = NoData)

\* C16: in both proxies a missing webhook URL or a missing shared secret is
\* answered 500 and no request is sent upstream.
C16_MissingSettingIs500 == C16_ChatProxy /\ C16_ContactProxy

RECURSIVE SumOver(_, _)
SumOver(f, keys) ==
    IF keys = {} THEN 0
    ELSE LET k == CHOOSE x \in keys : TRUE
         IN  f[k] + SumOver(f, keys \ {k})

AdmittedWithin(ip) ==
    SumOver([k \in ContactKeys |-> Len(Within(contactStore[k], now, RATE_LIMIT_WINDOW))],
            {k \in ContactKeys : k[1] = ip})

\* the 429 of the contact proxy and its retryAfter
ContactDenied ==
    /\ lastContact.status = 429
    /\ LET inside == {lastContact.before[i] : i \in
                         {j \in 1..Len(lastContact.before) :
                             lastContact.at - lastContact.before[j] < RATE_LIMIT_WINDOW}}
           oldest == CHOOSE x \in inside : \A y \in inside : x <= y
           ticks  == oldest + RATE_LIMIT_WINDOW - lastContact.at
       IN  /\ lastContact.retryAfter * SECOND >= ticks
           /\ (lastContact.retryAfter - 1) * SECOND < ticks

\* C18, per bucket key: at most the maximum is admitted per key and window,
\* and a request over it is answered 429 with the retryAfter of the oldest
\* admitted request in the window.
C18_PerKeyLimit ==
    /\ \A k \in ContactKeys :
          Len(Within(contactStore[k], now, RATE_LIMIT_WINDOW)) <= MAX_REQUESTS_PER_HOUR
    /\ (lastContact.method = "POST" /\ ~lastContact.allowed) => ContactDenied

\* C18: at most the maximum is admitted per client IP within a window,
\* whatever the rest of the forwarded-for header, and a request over it is
\* answered 429 with the retryAfter of the oldest admitted request.
C18_PerIpLimit ==
    /\ \A k \in ContactKeys : AdmittedWithin(k[1]) <= MAX_REQUESTS_PER_HOUR
    /\ (lastContact.method = "POST" /\ ~lastContact.allowed) => ContactDenied

\* The contact proxy accepted the payload of its last request: it passed
\* validation and the sanitized form went into the upstream call.
ContactAccepted == lastContact.fwd # NoData

\* the payload's value for a field and its legacy alias
Supplied(field, alias) ==
    OrElse(Get(lastContact.raw, field), Get(lastContact.raw, alias))

Trimmed(v) == Text(TrimRuns(v.runs))

\* the source tag expected for the last payload
ExpectedSource ==
    IF Get(lastContact.raw, "source") \in {SourceWebsite, SourcePdf}
    THEN Get(lastContact.raw, "source") ELSE SourceWebsite

\* the service forwarded comes from service, else from projectType
ServiceAliasApplied ==
    LET service == Supplied("service", "projectType")
    IN  lastContact.fwd.service =
            (IF CTruthy(service) THEN Text(Take(TrimRuns(service.runs), SERVICE_CAP))
             ELSE Empty)

\* C19 as stated: an accepted payload is forwarded with the name trimmed, the
\* email trimmed and lower-cased, the message trimmed, the legacy aliases
\* applied, and the source whitelisted with website-contact-form the default.
C19_TrimmedOnly ==
    ContactAccepted =>
        /\ lastContact.fwd.name = Trimmed(Supplied("name", "firstname"))
        /\ lastContact.fwd.email =
               Text(ToLowerCase(TrimRuns(Get(lastContact.raw, "email").runs)))
        /\ lastContact.fwd.message = Trimmed(Get(lastContact.raw, "message"))
        /\ ServiceAliasApplied
        /\ lastContact.fwd.source = ExpectedSource

\* C19, amended: the forwarded name is the first 100 characters of the
\* trimmed name and the forwarded email the first 200 characters of the
\* trimmed, lower-cased email; the message, the aliases and the source are as
\* stated.
C19_TrimmedAndCapped ==
    ContactAccepted =>
        /\ lastContact.fwd.name =
               Text(Take(TrimRuns(Supplied("name", "firstname").runs), NAME_CAP))
        /\ lastContact.fwd.email =
               Text(Take(ToLowerCase(TrimRuns(Get(lastContact.raw, "email").runs)),
                         EMAIL_CAP))
        /\ lastContact.fwd.message = Trimmed(Get(lastContact.raw, "message"))
        /\ ServiceAliasApplied
        /\ lastContact.fwd.source = ExpectedSource

\* an accepted payload whose name is longer than the cap, forwarded cut
C19_Witness ==
    /\ ContactAccepted
    /\ Get(lastContact.raw, "name") = Letters(NAME_CAP + 1)
    /\ lastContact.fwd.name = Letters(NAME_CAP)

\* The string fields of a forwarded payload and their caps.
StringFields == {"name", "email", "company", "phone", "service", "message"}

CapOf(f) ==
    CASE f = "name"    -> NAME_CAP
      [] f = "email"   -> EMAIL_CAP
      [] f = "company" -> COMPANY_CAP
      [] f = "phone"   -> PHONE_CAP
      [] f = "service" -> SERVICE_CAP
      [] f = "message" -> MESSAGE_CAP

NoOuterWhitespace(v) ==
    v.runs = <<>> \/ (Head(v.runs).c # " " /\ v.runs[Len(v.runs)].c # " ")

\* a non-empty string: a string with a character that is no white space
NonEmptyString(v) == IsText(v) /\ TrimRuns(v.runs) # <<>>

\* the acceptance condition of the claim, on the payload of the last request
Acceptable ==
    LET name    == Supplied("name", "firstname")
        email   == Get(lastContact.raw, "email")
        message == Get(lastContact.raw, "message")
    IN  /\ NonEmptyString(name) /\ NonEmptyString(email) /\ NonEmptyString(message)
        /\ EmailRegex(email.runs)
        /\ RunsLen(TrimRuns(message.runs)) <= MESSAGE_CAP

\* the last request reached validation with a JSON value as its body and the
\* proxy is configured, so that it forwards what it accepts
ContactValidated ==
    /\ lastContact.method = "POST" /\ lastContact.allowed
    /\ lastContact.raw \notin {BadJson, EmptyBody}
    /\ contactUrlSet /\ contactKeySet

\* a forwarded payload as the body of a new request
AsPayload(fwd) ==
    [t |-> "object", name |-> fwd.name, email |-> fwd.email, company |-> fwd.company,
     phone |-> fwd.phone, service |-> fwd.service, message |-> fwd.message,
     consent |-> IF fwd.consent THEN JTrue ELSE JFalse,
     language |-> fwd.language, timestamp |-> JNumber, source |-> fwd.source]

\* C20, the caps alone: every string field of a forwarded payload is within
\* its length cap.
C20_WithinCaps ==
    ContactAccepted =>
        \A f \in StringFields : RunsLen(lastContact.fwd[f].runs) <= CapOf(f)

\* C20: a payload is accepted exactly when name, email and message are
\* non-empty strings, the email has the local@domain.tld shape and the trimmed
\* message has at most 2000 characters; every string field forwarded is within
\* its cap with no white space at either end, so that sanitizing the
\* forwarded payload again gives the same payload.
C20_LengthAndTrim ==
    /\ ContactValidated => (ContactAccepted <=> Acceptable)
    /\ ContactAccepted =>
          /\ \A f \in StringFields :
                /\ RunsLen(lastContact.fwd[f].runs) <= CapOf(f)
                /\ NoOuterWhitespace(lastContact.fwd[f])
          /\ validateAndSanitize(AsPayload(lastContact.fwd), lastContact.at).data
                 = lastContact.fwd

\* C20, the three parts one by one
C20_AcceptedExactlyWhen == ContactValidated => (ContactAccepted <=> Acceptable)
C20_NoOuterWhitespace ==
    ContactAccepted => \A f \in StringFields : NoOuterWhitespace(lastContact.fwd[f])
C20_SanitizeIdempotent ==
    ContactAccepted =>
        validateAndSanitize(AsPayload(lastContact.fwd), lastContact.at).data
            = lastContact.fwd

\* C21: no call of sendMessage is dropped silently: a call that does not go
\* on to a bot turn shows a validation notice or a warning turn.
C21_NoSilentDrop ==
    lastCall # NoCall => lastCall.outcome \in {"alert", "warning", "sent"}

\* The text fails the precondition of sendMessage: it is empty after
\* trimming or longer than the maximum.
PreconditionFails(text) ==
    StrLen(Trim(text)) = 0 \/ StrLen(text) > CLIENT_MAX_MESSAGE_LENGTH

\* C22: a call of sendMessage with a text that is empty after trimming or
\* longer than 450 characters issues no request, appends no turn to the
\* history in memory or in sessionStorage, records no timestamp and leaves
\* the processing flag as it is.
C22_PreconditionFailureFrame ==
    [][(lastCall' # lastCall /\ PreconditionFails(lastCall'.text))
          => UNCHANGED <<messageHistory, storedHistory, messageTimes, isProcessing,
                         inflight, pc>>]_vars

C22_Witness ==
    /\ lastCall.outcome = "alert" /\ ~lastCall.wasProcessing
    /\ lastCall.text = Lit("long", CLIENT_MAX_MESSAGE_LENGTH + 1)
    /\ Len(messageHistory) > 0

\* the reasons of the client rate limiter, which the warning turn shows
WarningTexts == {RATE_LIMITS[i].name : i \in 1..Len(RATE_LIMITS)}

\* C23: a send that the client rate limiter denies shows a warning and
\* changes neither the history in memory nor the one in sessionStorage,
\* issues no request and leaves the processing flag as it is; no history in
\* memory, in sessionStorage or in a request body holds a warning.
C23_DenialFrame ==
    /\ [][(lastCall' # lastCall /\ lastCall'.outcome = "warning")
             => UNCHANGED <<messageHistory, storedHistory, isProcessing, inflight, pc>>]_vars
    /\ [](/\ \A i \in 1..Len(messageHistory) : messageHistory[i].text \notin WarningTexts
          /\ \A i \in 1..Len(storedHistory) : storedHistory[i].text \notin WarningTexts
          /\ \A i \in 1..Len(wire) : wire[i].content \notin WarningTexts)

C23_Witness ==
    /\ lastCall.outcome = "warning"
    /\ Len(messageHistory) >= 2
    /\ wire # NoWire

\* C26: the requests of one identity that the chat proxy admitted within
\* 60 seconds of one another are at most RATE_LIMIT_PER_MINUTE, and a request
\* that comes more than 60 seconds after the identity's last admitted request
\* is admitted, whatever was denied in between.
C26_BurstBound ==
    /\ \A ip \in IPs :
          LET times == admittedAt[ip]
              n     == Len(times)
          IN  n > 0 =>
                 Cardinality({i \in 1..n : times[n] - times[i] <= ONE_MINUTE})
                     <= RATE_LIMIT_PER_MINUTE
    /\ LET before == lastReq.admittedBefore
       IN  (IsPost /\ before # <<>> /\ lastReq.at - before[Len(before)] > ONE_MINUTE)
              => lastReq.allowed

\* a denied identity is admitted again, after a burst that filled the limit
C26_Witness ==
    /\ IsPost /\ lastReq.allowed
    /\ Len(lastReq.admittedBefore) = RATE_LIMIT_PER_MINUTE
    /\ lastReq.at - lastReq.admittedBefore[Len(lastReq.admittedBefore)] > ONE_MINUTE
    /\ lastReq.before.present
    /\ lastReq.before.count = RATE_LIMIT_PER_MINUTE

\* the checks of each tier inside its window, persisted and allowed
PersistedWithinMax ==
    \A i \in 1..Len(RATE_LIMITS) :
        Len(Within(messageTimes, now, RATE_LIMITS[i].window)) <= RATE_LIMITS[i].max

AllowedWithinMax ==
    \A i \in 1..Len(RATE_LIMITS) :
        Len(Within(allowedAt, now, RATE_LIMITS[i].window)) <= RATE_LIMITS[i].max

\* the retryAfter of a denial is between 1 and the window of its tier, in seconds
RetryAfterInRange ==
    (lastCheck.at # NoTime /\ ~lastCheck.allowed) =>
        \E i \in 1..Len(RATE_LIMITS) :
            /\ RATE_LIMITS[i].name = lastCheck.tier
            /\ lastCheck.retryAfter >= 1
            /\ lastCheck.retryAfter * SECOND <= RATE_LIMITS[i].window

C28_RetryAfterSuffices ==
    (lastCheck.denial # NoDenial
        /\ lastCheck.at >= lastCheck.denial.at + lastCheck.denial.retryAfter * SECOND)
       => lastCheck.allowed

\* The last check came at least retryAfter seconds after the denial that the
\* check before it returned.
RetriedInTime ==
    /\ lastCheck.denial # NoDenial
    /\ lastCheck.at >= lastCheck.denial.at + lastCheck.denial.retryAfter * SECOND

\* C28, amended: retryAfter seconds after a denial the tier that denied has
\* room again; a check made then is allowed or denied by another tier.
C28_DenyingTierHasRoom ==
    /\ (lastCheck.at # NoTime /\ ~lastCheck.allowed) =>
          \A i \in 1..Len(RATE_LIMITS) :
              RATE_LIMITS[i].name = lastCheck.tier =>
                  Len(Within(messageTimes, lastCheck.at + lastCheck.retryAfter * SECOND,
                             RATE_LIMITS[i].window)) < RATE_LIMITS[i].max
    /\ (RetriedInTime /\ ~lastCheck.allowed) => lastCheck.tier # lastCheck.denial.tier

\* a check made in time after a denial of the first tier, denied by the second
C28_Witness ==
    /\ RetriedInTime /\ ~lastCheck.allowed
    /\ lastCheck.denial.tier = "PER_MINUTE"
    /\ lastCheck.tier = "PER_10_MINUTES"

\* stored is the most recent min(n, 50) turns of history, in the same order
SuffixOf(stored, history) ==
    LET n == Len(history)
        k == IF n < STORED_HISTORY_LIMIT THEN n ELSE STORED_HISTORY_LIMIT
    IN  /\ Len(stored) = k
        /\ \A i \in 1..k : stored[i] = history[n - k + i]

GreetingDue == greetingTimers > 0 /\ messageHistory = <<>> /\ storedHistory = <<>>

\* C25: once the widget is opened or the history cleared with no prior
\* conversation, the greeting eventually is the first turn of the history,
\* whatever sends, toggles and clearHistory calls come before the timer.
C25_GreetingSeeded ==
    GreetingDue ~> (messageHistory # <<>> /\ messageHistory[1] = Greeting)

\* the part of C25 that the widget keeps: the history does not stay empty
C25_NotLeftEmpty == GreetingDue ~> (messageHistory # <<>>)

\* a reply of the assistant
BotReply(turn) == turn = Turn("reply", FALSE)

\* C29: under every interleaving of sends, responses, greeting timers, toggles
\* and clearHistory calls, each bot reply in the history comes right after
\* the user turn it answers.
C29_RepliesPaired ==
    \A i \in 1..Len(messageHistory) :
        BotReply(messageHistory[i]) => i > 1 /\ messageHistory[i - 1].isUser

\* new keeps the turns of old, except turns that fell out of the stored maximum
Kept(old, new) ==
    \E k \in 0..Len(old) :
        /\ k > 0 => Len(new) = STORED_HISTORY_LIMIT
        /\ Len(new) >= Len(old) - k
        /\ \A i \in 1..(Len(old) - k) : new[i] = old[k + i]

\* C30: without a clearHistory call no step removes a persisted turn, except
\* turns falling out of the most recent 50; a send after a reload and before
\* the widget is opened keeps the persisted turns.
C30_PersistedKept == [][~ClearHistory => Kept(storedHistory, storedHistory')]_vars

====
